---------------------------- MODULE Spec2Model ----------------------------
(***************************************************************************)
(* Resume Evaluation Engine of main.py: parse_analysis (field extraction,  *)
(* numeric post-processing, fallback skill matching, heuristic             *)
(* normalisation) and calculate_scores (weighted scoring and               *)
(* classification).                                                        *)
(*                                                                         *)
(* A Python str is a sequence of one-character strings, so that split,     *)
(* strip, lower, "in" and the regular expressions are computed character   *)
(* by character as the code computes them.  Dictionary keys (the canonical *)
(* field names) are never inspected character-wise by the code and are     *)
(* ordinary TLA+ strings.  A Python float is an exact rational held as an  *)
(* integer numerator over a fixed denominator.                             *)
(***************************************************************************)
EXTENDS Integers, Sequences, FiniteSets, TLC

VARIABLES
    parsed_data,      \* calculate_scores: the record passed in (a mutable dict)
    ret,              \* calculate_scores: the value returned, NoCall before the call
    analysis,         \* parse_analysis: argument analysis
    resume_text,      \* parse_analysis: argument resume_text
    job_description,  \* parse_analysis: argument job_description
    pc,               \* parse_analysis: position in the function body
    result,           \* parse_analysis: the local dict result
    fallback_called,  \* parse_analysis: calculate_skills_scores was invoked
    returned,         \* parse_analysis: the value returned, Pending before the return
    calls,            \* invocations of parse_analysis in flight side by side:
                      \* call number -> its arguments, position and locals
    skills_ret,       \* calculate_skills_scores: the value returned, NoCall before
    session_state,    \* st.session_state: results_data and the timing accumulators
    tab               \* main_analysis_tab and dashboard_tab: the uploaded files,
                      \* the loop position, the progress bar and what is shown

vars == <<parsed_data, ret, analysis, resume_text, job_description, pc,
          result, fallback_called, returned, calls, skills_ret,
          session_state, tab>>

-----------------------------------------------------------------------------
(* Python values.  None and a non-str object are one-element sequences whose *)
(* element is no character, so they differ from every str.                  *)

PyNone == <<"<None>">>
PyInt5 == <<"<int 5>">>

IsStr(v) == v # PyNone /\ v # PyInt5

\* Python truthiness: None and "" are falsy, every other value here is truthy.
Truthy(v) == v # PyNone /\ v # <<>>

Digits == <<"0","1","2","3","4","5","6","7","8","9">>

UpperLetters == <<"A","B","C","D","E","F","G","H","I","J","K","L","M",
                  "N","O","P","Q","R","S","T","U","V","W","X","Y","Z">>

LowerLetters == <<"a","b","c","d","e","f","g","h","i","j","k","l","m",
                  "n","o","p","q","r","s","t","u","v","w","x","y","z">>

Range(f) == {f[i] : i \in DOMAIN f}

IsDigit(c) == c \in Range(Digits)

\* \s of re and the whitespace of str.strip, for the characters of the model.
IsSpace(c) == c \in {" ", "\n", "\t"}

\* \w of re.
IsWordChar(c) == c \in Range(Digits) \cup Range(UpperLetters) \cup Range(LowerLetters) \cup {"_"}

DigitValue(c) == (CHOOSE i \in 1..10 : Digits[i] = c) - 1

LowerChar(c) ==
    IF c \in Range(UpperLetters)
    THEN LowerLetters[CHOOSE i \in 1..26 : UpperLetters[i] = c]
    ELSE c

UpperChar(c) ==
    IF c \in Range(LowerLetters)
    THEN UpperLetters[CHOOSE i \in 1..26 : LowerLetters[i] = c]
    ELSE c

\* str.lower()
lower(s) == [i \in 1..Len(s) |-> LowerChar(s[i])]

\* str.upper()
upper(s) == [i \in 1..Len(s) |-> UpperChar(s[i])]

Min(S) == CHOOSE x \in S : \A y \in S : x <= y
Max(S) == CHOOSE x \in S : \A y \in S : x >= y

\* s[i:] with a 1-based i
From(s, i) == SubSeq(s, i, Len(s))

\* sub occurs in s at position i
MatchAt(s, sub, i) ==
    /\ i >= 1
    /\ i + Len(sub) - 1 <= Len(s)
    /\ \A k \in 1..Len(sub) : s[i + k - 1] = sub[k]

\* sub in s
Contains(s, sub) == \E i \in 1..(Len(s) + 1) : MatchAt(s, sub, i)

\* str.find, 1-based; 0 when absent
Find(s, sub) ==
    LET hits == {i \in 1..(Len(s) + 1) : MatchAt(s, sub, i)}
    IN  IF hits = {} THEN 0 ELSE Min(hits)

\* str.startswith
startswith(s, sub) == MatchAt(s, sub, 1)

\* any(word in s for word in words), words a sequence of str
AnyIn(words, s) == \E k \in DOMAIN words : Contains(s, words[k])

\* str.strip()
strip(s) ==
    LET keep == {i \in 1..Len(s) : ~IsSpace(s[i])}
    IN  IF keep = {} THEN <<>> ELSE SubSeq(s, Min(keep), Max(keep))

\* str.split('\n'): always at least one piece
RECURSIVE split_lines(_)
split_lines(s) ==
    LET nl == Find(s, <<"\n">>)
    IN  IF nl = 0 THEN <<s>>
        ELSE <<SubSeq(s, 1, nl - 1)>> \o split_lines(From(s, nl + 1))

\* '\n'.join(parts)
RECURSIVE join_lines(_)
join_lines(parts) ==
    IF Len(parts) = 0 THEN <<>>
    ELSE IF Len(parts) = 1 THEN parts[1]
    ELSE parts[1] \o <<"\n">> \o join_lines(Tail(parts))

\* The end (exclusive) of the longest run of characters satisfying P from i.
RECURSIVE SpanDigits(_, _)
SpanDigits(s, i) == IF i <= Len(s) /\ IsDigit(s[i]) THEN SpanDigits(s, i + 1) ELSE i

RECURSIVE SpanSpace(_, _)
SpanSpace(s, i) == IF i <= Len(s) /\ IsSpace(s[i]) THEN SpanSpace(s, i + 1) ELSE i

\* The end (exclusive) of a match of \d+(?:\.\d+)? starting at i; i itself when
\* there is none.
NumberEnd(s, i) ==
    LET e == SpanDigits(s, i)
    IN  IF e = i THEN i
        ELSE IF e + 1 <= Len(s) /\ s[e] = "." /\ IsDigit(s[e + 1])
        THEN SpanDigits(s, e + 1)
        ELSE e

\* re.search(r'(\d+(?:\.\d+)?)', s): group(1), or PyNone without a match
SearchNumber(s) ==
    LET starts == {i \in 1..Len(s) : IsDigit(s[i])}
    IN  IF starts = {} THEN PyNone
        ELSE SubSeq(s, Min(starts), NumberEnd(s, Min(starts)) - 1)

\* re.search(label + r':?\s*(\d+(?:\.\d+)?)', s): group(1), or PyNone
SearchLabelledNumber(label, s) ==
    LET NumStart(i) ==
            LET a == i + Len(label)
                b == IF a <= Len(s) /\ s[a] = ":" THEN a + 1 ELSE a
            IN  SpanSpace(s, b)
        hits == {i \in 1..Len(s) :
                    /\ MatchAt(s, label, i)
                    /\ NumberEnd(s, NumStart(i)) > NumStart(i)}
    IN  IF hits = {} THEN PyNone
        ELSE SubSeq(s, NumStart(Min(hits)), NumberEnd(s, NumStart(Min(hits))) - 1)

\* re.match(r'^\d+(?:\.\d+)?$', s): $ also matches before a final newline
IsPureNumber(s) ==
    /\ Len(s) > 0
    /\ LET e == NumberEnd(s, 1)
       IN  e > 1 /\ (e = Len(s) + 1 \/ (e = Len(s) /\ s[e] = "\n"))

-----------------------------------------------------------------------------
(* Python floats.  A float is the exact rational num / Den; the strings the  *)
(* model feeds to float() carry at most three fractional digits, so that    *)
(* every value the code computes from them is a whole number of 1/Den.      *)

\* Thousandths: the unit of a parsed numeric string.
Milli == 10 * 10 * 10

\* The unit of a score component: 1/30000 holds 0.7*x + 0.3*y, x/3*70 and
\* 7.5*x exactly for x, y in thousandths.
Den == 30 * Milli

\* The unit of the overall score: the weights are hundredths.
OverallDen == 100 * Den

RECURSIVE DigitsToInt(_)
DigitsToInt(s) ==
    IF Len(s) = 0 THEN 0
    ELSE 10 * DigitsToInt(SubSeq(s, 1, Len(s) - 1)) + DigitValue(s[Len(s)])

RECURSIVE IntToDigits(_)
IntToDigits(n) ==
    IF n < 10 THEN <<Digits[n + 1]>>
    ELSE IntToDigits(n \div 10) \o <<Digits[(n % 10) + 1]>>

\* str(n) for an int n
IntToStr(n) == IF n < 0 THEN <<"-">> \o IntToDigits(0 - n) ELSE IntToDigits(n)

\* float(v): [ok |-> TRUE, milli |-> value in thousandths], or ok = FALSE where
\* float raises ValueError (a str that is no number) or TypeError (None).
\* Accepted syntax: surrounding whitespace, a sign, digits with an optional
\* fraction.  Exponents, "inf" and "nan" are not among the model's inputs.
FloatOf(v) ==
    LET \* the digits t, whose integer part ends before e1 and whose fraction,
        \* when there is one, ends before e2
        Magnitude(t, e1, e2) ==
            LET intPart == SubSeq(t, 1, e1 - 1)
                fracPart == SubSeq(t, e1 + 1, e2 - 1)
            IN  IF e2 = Len(t) + 1 /\ Len(intPart) + Len(fracPart) > 0
                THEN [ok |-> TRUE,
                      milli |-> DigitsToInt(intPart) * Milli
                                + DigitsToInt(SubSeq(fracPart \o <<"0","0","0">>, 1, 3))]
                ELSE [ok |-> FALSE, milli |-> 0]
        Number(t, e1) ==
            Magnitude(t, e1, IF e1 <= Len(t) /\ t[e1] = "."
                             THEN SpanDigits(t, e1 + 1) ELSE e1)
        Unsigned(t) == Number(t, SpanDigits(t, 1))
        Signed(t0) ==
            IF Len(t0) > 0 /\ t0[1] \in {"-", "+"} THEN Unsigned(Tail(t0))
            ELSE Unsigned(t0)
        Stripped(t0) ==
            IF Len(t0) > 0 /\ t0[1] = "-"
            THEN [Signed(t0) EXCEPT !.milli = 0 - @]
            ELSE Signed(t0)
    IN  IF v = PyNone THEN [ok |-> FALSE, milli |-> 0]
        ELSE IF v = PyInt5 THEN [ok |-> TRUE, milli |-> 5 * Milli]
        ELSE Stripped(strip(v))

Abs(n) == IF n < 0 THEN 0 - n ELSE n

\* round(num/den) to the nearest integer, ties to the even one (Python 3 round
\* on a value that is exactly representable).
RoundHalfEven(num, den) ==
    LET a == Abs(num)
        q == a \div den
        r == a % den
        m == IF 2 * r > den \/ (2 * r = den /\ q % 2 = 1) THEN q + 1 ELSE q
    IN  IF num < 0 THEN 0 - m ELSE m

\* str(round(num/den, places)) for places in {1, 2}: repr of a float, which
\* drops trailing zeros of the fraction but keeps one fractional digit
\* (and keeps the sign of a negative value that rounds to zero: "-0.0").
\* 10^places divides den.
StrRound(num, den, places) ==
    LET p == IF places = 1 THEN 10 ELSE 100
        n == RoundHalfEven(num, den \div p)
        a == Abs(n)
        ip == a \div p
        fp == a % p
        fdigits == IF places = 1 THEN IntToDigits(fp)
                   ELSE IF fp % 10 = 0 THEN IntToDigits(fp \div 10)
                   ELSE <<Digits[(fp \div 10) + 1], Digits[(fp % 10) + 1]>>
    IN  (IF num < 0 THEN <<"-">> ELSE <<>>) \o IntToDigits(ip) \o <<".">> \o fdigits

-----------------------------------------------------------------------------
(* calculate_scores                                                          *)

\* dict.get(key, default)
Get(d, key, default) == IF key \in DOMAIN d THEN d[key] ELSE default

\* d[key] = value
Put(d, key, value) == [k \in DOMAIN d \cup {key} |-> IF k = key THEN value ELSE d[k]]

MinOf(a, b) == IF a <= b THEN a ELSE b
MaxOf(a, b) == IF a >= b THEN a ELSE b

required_experience == 3
stability_threshold == 2

leadership_keywords ==
    << <<"l","e","d">>, <<"m","a","n","a","g","e","d">>, <<"d","i","r","e","c","t","e","d">>, <<"l","e","a","d","e","r","s","h","i","p">>, <<"h","e","a","d">>, <<"t","e","a","m"," ","l","e","a","d">>,
       <<"s","u","p","e","r","v","i","s","o","r">>, <<"m","a","n","a","g","e","r">>, <<"c","h","i","e","f">>, <<"d","i","r","e","c","t","o","r">>, <<"l","e","a","d">> >>

partial_leadership ==
    << <<"c","o","o","r","d","i","n","a","t","e","d">>, <<"f","a","c","i","l","i","t","a","t","e","d">>, <<"o","r","g","a","n","i","z","e","d">>, <<"s","p","e","a","r","h","e","a","d","e","d">>, <<"g","u","i","d","e","d">> >>

international_keywords ==
    << <<"y","e","s">>, <<"i","n","t","e","r","n","a","t","i","o","n","a","l">>, <<"g","l","o","b","a","l">>, <<"w","o","r","l","d","w","i","d","e">>, <<"m","u","l","t","i","n","a","t","i","o","n","a","l">>,
       <<"c","r","o","s","s","-","b","o","r","d","e","r">>, <<"o","v","e","r","s","e","a","s">>, <<"r","e","m","o","t","e"," ","t","e","a","m","s">>, <<"o","f","f","s","h","o","r","e">> >>

deep_int_exp ==
    << <<"l","e","d"," ","i","n","t","e","r","n","a","t","i","o","n","a","l">>, <<"m","a","n","a","g","e","d"," ","g","l","o","b","a","l">>, <<"c","r","o","s","s","-","c","u","l","t","u","r","a","l">>,
       <<"m","u","l","t","i","p","l","e"," ","c","o","u","n","t","r","i","e","s">> >>

premium_competitors ==
    << <<"a","n","a","p","l","a","n">>, <<"w","o","r","k","d","a","y">>, <<"o","r","a","c","l","e">>, <<"s","a","p">>, <<"o","n","e","s","t","r","e","a","m">> >>

\* The component scored from a numeric field: float(value) fed to the rule,
\* 0 where float raises ValueError or TypeError.
StrongMatches(pd) ==
    LET Value(f) == IF f.ok THEN 30 * f.milli ELSE 0
    IN  Value(FloatOf(Get(pd, "Strong Matches Score", <<"0">>)))

PartialMatches(pd) ==
    LET Value(f) == IF f.ok THEN 30 * f.milli ELSE 0
    IN  Value(FloatOf(Get(pd, "Partial Matches Score", <<"0">>)))

\* min(0.7 * strong + 0.3 * partial, 100)
RelevancyScore(strong, partial) ==
    MinOf((7 * strong) \div 10 + (3 * partial) \div 10, 100 * Den)

\* str(round(scores["relevancy"], 1)): min returns the int 100 when the
\* weighted sum exceeds it, and then round and str give "100", not "100.0".
RelevancyText(strong, partial) ==
    IF (7 * strong) \div 10 + (3 * partial) \div 10 > 100 * Den
    THEN <<"1","0","0">>
    ELSE StrRound(RelevancyScore(strong, partial), Den, 1)

ExperienceScore(pd, required) ==
    LET Score(ok, candidate_exp) ==
            IF ~ok THEN 0
            ELSE IF candidate_exp < required * Milli
            THEN MinOf((30 * 70 * candidate_exp) \div required, 70 * Den)
            ELSE IF candidate_exp = required * Milli THEN 80 * Den
            ELSE 80 * Den + MinOf(300 * (candidate_exp - required * Milli), 20 * Den)
        Of(f) == Score(f.ok, f.milli)
    IN  Of(FloatOf(Get(pd, "Total Experience (Years)", <<"0">>)))

StabilityScore(pd) ==
    LET Score(ok, job_stability) ==
            IF ~ok THEN 0
            ELSE IF job_stability <= 10 * Milli THEN 300 * job_stability
            ELSE IF job_stability < 1 * Milli THEN 1500 * job_stability
            ELSE IF job_stability < 2 * Milli
            THEN 50 * Den + 1050 * (job_stability - Milli)
            ELSE 85 * Den + MinOf(225 * (job_stability - 2 * Milli), 15 * Den)
        Of(f) == Score(f.ok, f.milli)
    IN  Of(FloatOf(Get(pd, "Job Stability", <<"0">>)))

CollegeScore(college_rating) ==
    IF Truthy(college_rating)
    THEN IF Contains(lower(college_rating), <<"p","r","e","m","i","u","m">>)
            /\ ~Contains(lower(college_rating), <<"n","o","n">>)
         THEN 100 * Den
         ELSE IF Contains(lower(college_rating), <<"n","o","n","-","p","r","e","m","i","u","m">>) THEN 70 * Den
         ELSE 40 * Den
    ELSE 20 * Den

LeadershipScore(leadership_skills) ==
    IF Truthy(leadership_skills)
    THEN IF AnyIn(leadership_keywords, lower(leadership_skills)) THEN 100 * Den
         ELSE IF AnyIn(partial_leadership, lower(leadership_skills)) THEN 50 * Den
         ELSE 0
    ELSE 0

InternationalScore(international_exp) ==
    IF Truthy(international_exp)
    THEN IF AnyIn(international_keywords, lower(international_exp))
         THEN IF AnyIn(deep_int_exp, lower(international_exp)) THEN 100 * Den
              ELSE 80 * Den
         ELSE 0
    ELSE 0

CompetitorScore(competitor_exp) ==
    IF Truthy(competitor_exp) /\ startswith(lower(competitor_exp), <<"y","e","s">>)
    THEN IF AnyIn(premium_competitors, lower(competitor_exp)) THEN 100 * Den
         ELSE 70 * Den
    ELSE 0

\* Mutant of Weights: the relevancy weight of an earlier formula, 0.35.
WeightsRelevancy35 ==
    [relevancy |-> 35, experience |-> 15, stability |-> 12, college |-> 10,
     leadership |-> 10, international |-> 8, competitor |-> 5]

\* The weights of the overall score, in hundredths.
Weights ==
    [relevancy |-> 40, experience |-> 15, stability |-> 12, college |-> 10,
     leadership |-> 10, international |-> 8, competitor |-> 5]

\* overall_score, in units of 1/OverallDen
OverallScore(scores) ==
    Weights.relevancy * scores.relevancy
    + Weights.experience * scores.experience
    + Weights.stability * scores.stability
    + Weights.college * scores.college
    + Weights.leadership * scores.leadership
    + Weights.international * scores.international
    + Weights.competitor * scores.competitor

\* The recommendation strings of the code, without their emoji.
StrongFit == "Strong Fit - Priority interview"
GoodFit == "Good Fit - Recommend interview"
Consider == "Consider - Further screening needed"
WeakFit == "Weak Fit - Only interview if candidate pool is limited"
Reject == "Reject - Does not meet minimum criteria"
ErrorInCalculation == "Error in calculation"

\* Mutant of Recommendation: exclusive lower bounds.
RecommendationExclusive(overall_score) ==
    IF overall_score > 85 * OverallDen THEN StrongFit
    ELSE IF overall_score > 70 * OverallDen THEN GoodFit
    ELSE IF overall_score > 55 * OverallDen THEN Consider
    ELSE IF overall_score > 40 * OverallDen THEN WeakFit
    ELSE Reject

Recommendation(overall_score) ==
    IF overall_score >= 85 * OverallDen THEN StrongFit
    ELSE IF overall_score >= 70 * OverallDen THEN GoodFit
    ELSE IF overall_score >= 55 * OverallDen THEN Consider
    ELSE IF overall_score >= 40 * OverallDen THEN WeakFit
    ELSE Reject

\* A call raises past the inner try blocks when a field the code calls
\* .lower() on is a truthy value that is no str (AttributeError).
LowerRaises(pd) ==
    \E k \in {"College Rating", "Leadership Skills",
              "International Team Experience", "Competitor Experience"} :
        Truthy(Get(pd, k, <<>>)) /\ ~IsStr(Get(pd, k, <<>>))

\* The scores dictionary the call fills before the overall score.
ComponentScores(pd, required) ==
    [strong_matches |-> StrongMatches(pd),
     partial_matches |-> PartialMatches(pd),
     relevancy |-> RelevancyScore(StrongMatches(pd), PartialMatches(pd)),
     experience |-> ExperienceScore(pd, required),
     stability |-> StabilityScore(pd),
     college |-> CollegeScore(Get(pd, "College Rating", <<>>)),
     leadership |-> LeadershipScore(Get(pd, "Leadership Skills", <<>>)),
     international |->
         InternationalScore(Get(pd, "International Team Experience", <<>>)),
     competitor |-> CompetitorScore(Get(pd, "Competitor Experience", <<>>))]

\* Mutant of StoreRelevancy: a relevancy value the record already holds is
\* trusted and kept.
StoreRelevancyIfAbsent(pd) ==
    IF Get(pd, "Relevancy Score (0-100)", <<"N","o","t"," ","A","v","a","i","l","a","b","l","e">>) = <<"N","o","t"," ","A","v","a","i","l","a","b","l","e">>
    THEN Put(pd, "Relevancy Score (0-100)",
             RelevancyText(StrongMatches(pd), PartialMatches(pd)))
    ELSE pd

\* parsed_data["Relevancy Score (0-100)"] = str(round(scores["relevancy"], 1))
StoreRelevancy(pd) ==
    Put(pd, "Relevancy Score (0-100)",
        RelevancyText(StrongMatches(pd), PartialMatches(pd)))

\* "return overall_score, recommendation, scores" on the scores computed
ScoredReturn(overall_score, scores, data) ==
    [overall_score |-> overall_score,
     recommendation |-> Recommendation(overall_score),
     scores |-> scores, data |-> data]

\* Mutant of calculate_scores: without the try blocks around the four
\* float() calls, so that a value float rejects reaches the outer handler.
calculate_scores_unguarded(pd, required, threshold) ==
    LET Return(scores) == ScoredReturn(OverallScore(scores), scores, StoreRelevancy(pd))
        Rejected(k) == ~FloatOf(Get(pd, k, <<"0">>)).ok
    IN  IF Rejected("Strong Matches Score") \/ Rejected("Partial Matches Score")
        THEN [overall_score |-> 0, recommendation |-> ErrorInCalculation,
              scores |-> <<>>, data |-> pd]
        ELSE IF \/ Rejected("Total Experience (Years)")
                \/ Rejected("Job Stability")
                \/ LowerRaises(pd)
        THEN [overall_score |-> 0, recommendation |-> ErrorInCalculation,
              scores |-> <<>>, data |-> StoreRelevancy(pd)]
        ELSE Return(ComponentScores(pd, required))

\* calculate_scores(parsed_data, required_experience, stability_threshold):
\* the tuple returned, and parsed_data as the call leaves it.
calculate_scores(pd, required, threshold) ==
    LET Return(scores) == ScoredReturn(OverallScore(scores), scores, StoreRelevancy(pd))
    IN  IF LowerRaises(pd)
        THEN [overall_score |-> 0, recommendation |-> ErrorInCalculation,
              scores |-> <<>>, data |-> StoreRelevancy(pd)]
        ELSE Return(ComponentScores(pd, required))

-----------------------------------------------------------------------------
(* Calls of calculate_scores on arbitrary records                            *)

NotAvailable == <<"N","o","t"," ","A","v","a","i","l","a","b","l","e">>

StrongInputs == { <<"1","0","0">>, <<"0">>, NotAvailable, <<"-","1","0">>, PyNone }
PartialInputs == { <<"1","0","0">>, <<"0">>, <<"6","2",".","5">>, <<"n","/","a">> }
ExperienceInputs == { <<"5">>, <<"3">>, <<"3",".","6","6","6">>, <<"1">>, <<"-","3">>, <<"f","i","v","e">> }
StabilityInputs == { <<"1","0">>, <<"1","2">>, <<"H","i","g","h">> }
CollegeInputs == { <<"P","r","e","m","i","u","m">>, <<"N","o","n","-","P","r","e","m","i","u","m">>, NotAvailable, <<>>, PyInt5 }
LeadershipInputs == { <<"L","e","d"," ","a"," ","t","e","a","m">>, <<"g","u","i","d","e","d">>, <<"n","o","n","e">> }
InternationalInputs == { <<"L","e","d"," ","i","n","t","e","r","n","a","t","i","o","n","a","l">>, <<"Y","e","s">>, <<"N","o">> }
CompetitorInputs == { <<"Y","e","s"," ","-"," ","A","n","a","p","l","a","n">>, <<"Y","e","s"," ","-"," ","B","o","a","r","d">>, <<>> }

ScoreInputs ==
    { [k \in {"Strong Matches Score", "Partial Matches Score",
              "Total Experience (Years)", "Job Stability", "College Rating",
              "Leadership Skills", "International Team Experience",
              "Competitor Experience"} |->
         CASE k = "Strong Matches Score" -> s
           [] k = "Partial Matches Score" -> p
           [] k = "Total Experience (Years)" -> e
           [] k = "Job Stability" -> j
           [] k = "College Rating" -> c
           [] k = "Leadership Skills" -> l
           [] k = "International Team Experience" -> i
           [] k = "Competitor Experience" -> x] :
      s \in StrongInputs, p \in PartialInputs, e \in ExperienceInputs,
      j \in StabilityInputs, c \in CollegeInputs, l \in LeadershipInputs,
      i \in InternationalInputs, x \in CompetitorInputs }

NoCall == [called |-> FALSE]

EmptyDict == [k \in {} |-> <<>>]

\* No invocation runs beside the one the other variables describe.
NoCalls == <<>>

\* The page is not open.
NoTab == [phase |-> "closed"]

\* calculate_skills_scores is not called on its own and no page is open.
AppIdle ==
    /\ skills_ret = NoCall
    /\ session_state = EmptyDict
    /\ tab = NoTab

\* The parse_analysis variables while only calculate_scores is exercised.
ParseIdle ==
    /\ analysis = PyNone
    /\ resume_text = PyNone
    /\ job_description = PyNone
    /\ pc = "idle"
    /\ result = EmptyDict
    /\ fallback_called = FALSE
    /\ returned = "pending"
    /\ calls = NoCalls
    /\ AppIdle

ScoresInit ==
    /\ parsed_data \in ScoreInputs
    /\ ret = NoCall
    /\ ParseIdle

\* overall_score, recommendation, scores = calculate_scores(parsed_data)
CallCalculateScores ==
    /\ ~ret.called
    /\ LET Return(r) ==
               /\ ret' = [called |-> TRUE, overall_score |-> r.overall_score,
                          recommendation |-> r.recommendation, scores |-> r.scores]
               /\ parsed_data' = r.data
       IN  Return(calculate_scores(parsed_data, required_experience,
                                   stability_threshold))
    /\ UNCHANGED <<skills_ret, session_state, tab, calls, analysis, resume_text, job_description, pc, result,
                   fallback_called, returned>>

ScoresNext == CallCalculateScores

SpecScores == ScoresInit /\ [][ScoresNext]_vars

-----------------------------------------------------------------------------
(* Properties of calculate_scores, checked under SpecScores                  *)

\* The call returned from its last statement, not from the except handler.
Scored == ret.called /\ ret.recommendation # ErrorInCalculation

ComponentNames ==
    {"relevancy", "experience", "stability", "college", "leadership",
     "international", "competitor"}

\* C2: the recommendation is chosen by non-overlapping bands with inclusive
\* lower bounds: overall score >= 85 is Strong Fit, [70, 85) Good Fit,
\* [55, 70) Consider, [40, 55) Weak Fit, below 40 Reject.
C2_Bands ==
    Scored =>
        LET s == ret.overall_score
            r == ret.recommendation
        IN  /\ (s >= 85 * OverallDen) <=> (r = StrongFit)
            /\ (s >= 70 * OverallDen /\ s < 85 * OverallDen) <=> (r = GoodFit)
            /\ (s >= 55 * OverallDen /\ s < 70 * OverallDen) <=> (r = Consider)
            /\ (s >= 40 * OverallDen /\ s < 55 * OverallDen) <=> (r = WeakFit)
            /\ (s < 40 * OverallDen) <=> (r = Reject)

\* A call whose overall score is exactly 85.0.
C2_Witness == Scored /\ ret.overall_score = 85 * OverallDen

\* A call whose overall score is 84.999.
C2_JustBelow ==
    Scored /\ ret.overall_score = 84999 * (OverallDen \div Milli)

\* C3: for every input record, including one on which scoring hits an
\* internal error, the recommendation returned is one of the five labels.
C3_FiveLabels ==
    ret.called =>
        ret.recommendation \in {StrongFit, GoodFit, Consider, WeakFit, Reject}

\* The numeric fields hold a valid float string or the sentinel.
ValidNumericFields(pd) ==
    \A k \in {"Strong Matches Score", "Partial Matches Score",
              "Total Experience (Years)", "Job Stability"} :
        FloatOf(pd[k]).ok \/ pd[k] = NotAvailable

\* C4: for a record whose numeric fields are valid float strings or the
\* sentinel, each of the seven components and the overall score lie in
\* [0, 100].
C4_ComponentsInRange ==
    (Scored /\ ValidNumericFields(parsed_data)) =>
        /\ \A c \in ComponentNames :
               ret.scores[c] >= 0 /\ ret.scores[c] <= 100 * Den
        /\ ret.overall_score >= 0
        /\ ret.overall_score <= 100 * OverallDen

\* C5: the overall score is 0.40*relevancy + 0.15*experience + 0.12*stability
\* + 0.10*college + 0.10*leadership + 0.08*international + 0.05*competitor of
\* the components returned, and the weights sum to 1.00.
C5_WeightedSum ==
    /\ Scored =>
          ret.overall_score =
              40 * ret.scores.relevancy + 15 * ret.scores.experience
              + 12 * ret.scores.stability + 10 * ret.scores.college
              + 10 * ret.scores.leadership + 8 * ret.scores.international
              + 5 * ret.scores.competitor
    /\ Weights.relevancy + Weights.experience + Weights.stability
       + Weights.college + Weights.leadership + Weights.international
       + Weights.competitor = 100

\* A call in which every component is non-zero and no two are equal in
\* pairs that share a weight, so that each weight shows in the sum.
C5_Witness ==
    /\ Scored
    /\ \A c \in ComponentNames : ret.scores[c] > 0
    /\ ret.scores.college # ret.scores.leadership

-----------------------------------------------------------------------------
(* parse_analysis: field extraction                                          *)

\* expected_fields: the canonical fields in the order the dict lists them.
FieldOrder ==
    << "Candidate Name",
       "Total Experience (Years)",
       "Relevancy Score (0-100)",
       "Strong Matches Score",
       "Strong Matches Reasoning",
       "Partial Matches Score",
       "Partial Matches Reasoning",
       "All Tech Skills",
       "Relevant Tech Skills",
       "Degree",
       "College/University",
       "Job Applying For",
       "College Rating",
       "Job Stability",
       "Latest Company",
       "Leadership Skills",
       "International Team Experience",
       "Notice Period",
       "LinkedIn URL",
       "Portfolio URL",
       "Work History",
       "Competitor Experience" >>

\* expected_fields[field]: the label spellings recognised for the field.
expected_fields ==
    "Candidate Name" :>
        << <<"c","a","n","d","i","d","a","t","e"," ","n","a","m","e">>,
           <<"c","a","n","d","i","d","a","t","e","'","s"," ","n","a","m","e">>,
           <<"n","a","m","e">> >> @@
    "Total Experience (Years)" :>
        << <<"t","o","t","a","l"," ","e","x","p","e","r","i","e","n","c","e"," ","(","y","e","a","r","s",")">>,
           <<"t","o","t","a","l"," ","e","x","p","e","r","i","e","n","c","e">>,
           <<"e","x","p","e","r","i","e","n","c","e"," ","(","y","e","a","r","s",")">>,
           <<"y","e","a","r","s"," ","o","f"," ","e","x","p","e","r","i","e","n","c","e">> >> @@
    "Relevancy Score (0-100)" :>
        << <<"r","e","l","e","v","a","n","c","y"," ","s","c","o","r","e"," ","(","0","-","1","0","0",")">>,
           <<"r","e","l","e","v","a","n","c","y"," ","s","c","o","r","e">>,
           <<"r","e","l","e","v","a","n","c","e"," ","s","c","o","r","e">> >> @@
    "Strong Matches Score" :>
        << <<"s","t","r","o","n","g"," ","m","a","t","c","h","e","s"," ","s","c","o","r","e">>,
           <<"s","t","r","o","n","g"," ","m","a","t","c","h"," ","s","c","o","r","e">>,
           <<"s","t","r","o","n","g"," ","m","a","t","c","h","e","s">> >> @@
    "Strong Matches Reasoning" :>
        << <<"s","t","r","o","n","g"," ","m","a","t","c","h","e","s"," ","r","e","a","s","o","n","i","n","g">>,
           <<"s","t","r","o","n","g"," ","m","a","t","c","h"," ","r","e","a","s","o","n","i","n","g">> >> @@
    "Partial Matches Score" :>
        << <<"p","a","r","t","i","a","l"," ","m","a","t","c","h","e","s"," ","s","c","o","r","e">>,
           <<"p","a","r","t","i","a","l"," ","m","a","t","c","h"," ","s","c","o","r","e">>,
           <<"p","a","r","t","i","a","l"," ","m","a","t","c","h","e","s">> >> @@
    "Partial Matches Reasoning" :>
        << <<"p","a","r","t","i","a","l"," ","m","a","t","c","h","e","s"," ","r","e","a","s","o","n","i","n","g">>,
           <<"p","a","r","t","i","a","l"," ","m","a","t","c","h"," ","r","e","a","s","o","n","i","n","g">> >> @@
    "All Tech Skills" :>
        << <<"a","l","l"," ","t","e","c","h"," ","s","k","i","l","l","s">>,
           <<"a","l","l"," ","t","e","c","h","n","i","c","a","l"," ","s","k","i","l","l","s">> >> @@
    "Relevant Tech Skills" :>
        << <<"r","e","l","e","v","a","n","t"," ","t","e","c","h"," ","s","k","i","l","l","s">>,
           <<"r","e","l","e","v","a","n","t"," ","t","e","c","h","n","i","c","a","l"," ","s","k","i","l","l","s">> >> @@
    "Degree" :>
        << <<"d","e","g","r","e","e">>,
           <<"h","i","g","h","e","s","t"," ","d","e","g","r","e","e">>,
           <<"q","u","a","l","i","f","i","c","a","t","i","o","n">> >> @@
    "College/University" :>
        << <<"c","o","l","l","e","g","e","/","u","n","i","v","e","r","s","i","t","y">>,
           <<"u","n","i","v","e","r","s","i","t","y">>,
           <<"c","o","l","l","e","g","e">>,
           <<"i","n","s","t","i","t","u","t","i","o","n">> >> @@
    "Job Applying For" :>
        << <<"j","o","b"," ","a","p","p","l","y","i","n","g"," ","f","o","r">>,
           <<"j","o","b"," ","i","d">>,
           <<"p","o","s","i","t","i","o","n"," ","a","p","p","l","y","i","n","g"," ","f","o","r">>,
           <<"r","o","l","e"," ","a","p","p","l","y","i","n","g"," ","f","o","r">> >> @@
    "College Rating" :>
        << <<"c","o","l","l","e","g","e"," ","r","a","t","i","n","g">>,
           <<"u","n","i","v","e","r","s","i","t","y"," ","r","a","t","i","n","g">>,
           <<"i","n","s","t","i","t","u","t","i","o","n"," ","r","a","t","i","n","g">> >> @@
    "Job Stability" :>
        << <<"j","o","b"," ","s","t","a","b","i","l","i","t","y">>,
           <<"e","m","p","l","o","y","m","e","n","t"," ","s","t","a","b","i","l","i","t","y">> >> @@
    "Latest Company" :>
        << <<"l","a","t","e","s","t"," ","c","o","m","p","a","n","y">>,
           <<"c","u","r","r","e","n","t"," ","c","o","m","p","a","n","y">>,
           <<"m","o","s","t"," ","r","e","c","e","n","t"," ","c","o","m","p","a","n","y">> >> @@
    "Leadership Skills" :>
        << <<"l","e","a","d","e","r","s","h","i","p"," ","s","k","i","l","l","s">>,
           <<"l","e","a","d","e","r","s","h","i","p"," ","e","x","p","e","r","i","e","n","c","e">>,
           <<"l","e","a","d","e","r","s","h","i","p">> >> @@
    "International Team Experience" :>
        << <<"i","n","t","e","r","n","a","t","i","o","n","a","l"," ","t","e","a","m"," ","e","x","p","e","r","i","e","n","c","e">>,
           <<"g","l","o","b","a","l"," ","t","e","a","m"," ","e","x","p","e","r","i","e","n","c","e">>,
           <<"i","n","t","e","r","n","a","t","i","o","n","a","l"," ","e","x","p","e","r","i","e","n","c","e">> >> @@
    "Notice Period" :>
        << <<"n","o","t","i","c","e"," ","p","e","r","i","o","d">>,
           <<"j","o","i","n","i","n","g"," ","a","v","a","i","l","a","b","i","l","i","t","y">>,
           <<"a","v","a","i","l","a","b","i","l","i","t","y"," ","t","o"," ","j","o","i","n">> >> @@
    "LinkedIn URL" :>
        << <<"l","i","n","k","e","d","i","n"," ","u","r","l">>,
           <<"l","i","n","k","e","d","i","n"," ","p","r","o","f","i","l","e">>,
           <<"l","i","n","k","e","d","i","n">>,
           <<"l","i","n","k","e","d","i","n"," ","l","i","n","k">> >> @@
    "Portfolio URL" :>
        << <<"p","o","r","t","f","o","l","i","o"," ","u","r","l">>,
           <<"p","o","r","t","f","o","l","i","o">>,
           <<"g","i","t","h","u","b"," ","u","r","l">>,
           <<"g","i","t","h","u","b">>,
           <<"p","e","r","s","o","n","a","l"," ","w","e","b","s","i","t","e">>,
           <<"p","e","r","s","o","n","a","l"," ","u","r","l">>,
           <<"w","e","b","s","i","t","e">> >> @@
    "Work History" :>
        << <<"w","o","r","k"," ","h","i","s","t","o","r","y">>,
           <<"e","m","p","l","o","y","m","e","n","t"," ","h","i","s","t","o","r","y">>,
           <<"c","o","m","p","a","n","i","e","s"," ","w","o","r","k","e","d"," ","f","o","r">>,
           <<"p","r","e","v","i","o","u","s"," ","c","o","m","p","a","n","i","e","s">> >> @@
    "Competitor Experience" :>
        << <<"c","o","m","p","e","t","i","t","o","r"," ","e","x","p","e","r","i","e","n","c","e">>,
           <<"w","o","r","k","e","d"," ","f","o","r"," ","c","o","m","p","e","t","i","t","o","r">>,
           <<"c","o","m","p","e","t","i","t","o","r">>,
           <<"c","o","m","p","e","t","i","t","i","o","n"," ","e","x","p","e","r","i","e","n","c","e">> >>

Fields == Range(FieldOrder)

\* key in alternatives
IsAliasOf(key, field) == key \in Range(expected_fields[field])

\* The first field of expected_fields whose alternatives hold key, NoField
\* when none does.
NoField == "<none>"

FieldOfKey(key) ==
    LET hits == {n \in DOMAIN FieldOrder : IsAliasOf(key, FieldOrder[n])}
    IN  IF hits = {} THEN NoField ELSE FieldOrder[Min(hits)]

\* [alt for alts in expected_fields.values() for alt in alts]
AllAliases == UNION {Range(expected_fields[f]) : f \in Fields}

\* line.split(':', 1): the text before the first colon and the text after it
BeforeColon(line) == SubSeq(line, 1, Find(line, <<":">>) - 1)
AfterColon(line) == From(line, Find(line, <<":">>) + 1)

\* result = {field: "Not Available" for field in expected_fields}
InitialResult == [f \in Fields |-> NotAvailable]

\* First pass: re.search(r'Strong Matches Score:?\s*(\d+(?:\.\d+)?)', analysis)
\* and the same for Partial Matches Score, case-sensitive on the whole text.
FirstPass(text, res) ==
    LET strong_match == SearchLabelledNumber(<<"S","t","r","o","n","g"," ","M","a","t","c","h","e","s"," ","S","c","o","r","e">>, text)
        partial_match == SearchLabelledNumber(<<"P","a","r","t","i","a","l"," ","M","a","t","c","h","e","s"," ","S","c","o","r","e">>, text)
        r1 == IF strong_match # PyNone
              THEN [res EXCEPT !["Strong Matches Score"] = strong_match]
              ELSE res
    IN  IF partial_match # PyNone
        THEN [r1 EXCEPT !["Partial Matches Score"] = partial_match]
        ELSE r1

\* One iteration of "for i, line in enumerate(lines)" of the second pass, on
\* the loop state st = [result, current_field, current_value].
SecondPassStep(lines, i, st) ==
    LET line == strip(lines[i])
        hasColon == Contains(line, <<":">>)
        key == lower(strip(BeforeColon(line)))
        value == strip(AfterColon(line))
        field == IF hasColon THEN FieldOfKey(key) ELSE NoField
        new_field_found == field # NoField
        \* a previous field's value is saved when a new field starts
        saved == IF new_field_found /\ st.current_field # NoField
                    /\ st.current_value # <<>>
                 THEN [st.result EXCEPT ![st.current_field] =
                                            join_lines(st.current_value)]
                 ELSE st.result
        cf == IF new_field_found THEN field ELSE st.current_field
        started == IF new_field_found
                   THEN (IF value # <<>> THEN <<value>> ELSE <<>>)
                   ELSE st.current_value
        cv == IF ~new_field_found /\ cf # NoField
                 /\ (~hasColon \/ key \notin AllAliases)
              THEN Append(started, line)
              ELSE started
        \* at the last line an active field is saved
        flushed == IF i = Len(lines) /\ cf # NoField /\ cv # <<>>
                   THEN [saved EXCEPT ![cf] = join_lines(cv)]
                   ELSE saved
    IN  IF line = <<>> THEN st   \* continue
        ELSE [result |-> flushed, current_field |-> cf, current_value |-> cv]

RECURSIVE SecondPassFrom(_, _, _)
SecondPassFrom(lines, i, st) ==
    IF i > Len(lines) THEN st
    ELSE SecondPassFrom(lines, i + 1, SecondPassStep(lines, i, st))

\* The loop state when "for i, line in enumerate(lines)" ends.
SecondPassEnd(text, res) ==
    SecondPassFrom(split_lines(text), 1,
                   [result |-> res, current_field |-> NoField,
                    current_value |-> <<>>])

\* Second pass: structured field extraction over analysis.split('\n').
SecondPass(text, res) == SecondPassEnd(text, res).result

\* The record after the first and second pass.
ExtractFields(text) == SecondPass(text, FirstPass(text, InitialResult))

-----------------------------------------------------------------------------
(* parse_analysis: numeric post-processing                                   *)

numeric_fields ==
    << "Total Experience (Years)", "Relevancy Score (0-100)",
       "Strong Matches Score", "Partial Matches Score", "Job Stability" >>

NumericValue(v) ==
    IF v = NotAvailable THEN v
    ELSE IF SearchNumber(v) # PyNone THEN SearchNumber(v)
    ELSE v

\* Third pass: every numeric field is replaced by the first number in it.
ThirdPass(res) ==
    [f \in DOMAIN res |->
        IF f \in Range(numeric_fields) THEN NumericValue(res[f]) ELSE res[f]]

\* re.search(r'(\d+(?:\.\d+)?)/10', s): group(1), or PyNone
SearchNumberOverTen(s) ==
    LET hits == {i \in 1..Len(s) :
                    /\ IsDigit(s[i])
                    /\ MatchAt(s, <<"/","1","0">>, NumberEnd(s, i))}
    IN  IF hits = {} THEN PyNone
        ELSE SubSeq(s, Min(hits), NumberEnd(s, Min(hits)) - 1)

\* Special handling for Job Stability.  The code assigns result[field], field
\* being the variable the loop above left at numeric_fields[-1].
JobStabilityPass(res) ==
    LET js == res["Job Stability"]
        field == numeric_fields[Len(numeric_fields)]
    IN  IF js # NotAvailable /\ ~IsPureNumber(js)
        THEN IF SearchNumberOverTen(js) # PyNone
             THEN [res EXCEPT ![field] = SearchNumberOverTen(js)]
             ELSE IF SearchNumber(js) # PyNone
             THEN [res EXCEPT ![field] = SearchNumber(js)]
             ELSE res
        ELSE res

NumericPostProcess(res) == JobStabilityPass(ThirdPass(res))

-----------------------------------------------------------------------------
(* calculate_skills_scores                                                   *)

\* common_skills, in the order of the list
common_skills ==
    << <<"p","y","t","h","o","n">>, <<"j","a","v","a">>, <<"j","a","v","a","s","c","r","i","p","t">>, <<"c","+","+">>, <<"c","#">>, <<".","n","e","t">>,
       <<"p","h","p">>, <<"r","u","b","y">>, <<"s","w","i","f","t">>, <<"s","q","l">>, <<"m","y","s","q","l">>, <<"p","o","s","t","g","r","e","s","q","l">>,
       <<"m","o","n","g","o","d","b">>, <<"o","r","a","c","l","e">>, <<"d","a","t","a","b","a","s","e">>, <<"a","w","s">>, <<"a","z","u","r","e">>, <<"g","c","p">>,
       <<"c","l","o","u","d">>, <<"d","o","c","k","e","r">>, <<"k","u","b","e","r","n","e","t","e","s">>, <<"d","e","v","o","p","s">>, <<"h","t","m","l">>, <<"c","s","s">>,
       <<"r","e","a","c","t">>, <<"a","n","g","u","l","a","r">>, <<"v","u","e">>, <<"n","o","d","e",".","j","s">>, <<"d","j","a","n","g","o">>,
       <<"m","a","c","h","i","n","e"," ","l","e","a","r","n","i","n","g">>, <<"a","i">>, <<"d","a","t","a"," ","s","c","i","e","n","c","e">>, <<"t","e","n","s","o","r","f","l","o","w">>,
       <<"p","y","t","o","r","c","h">>, <<"e","x","c","e","l">>, <<"p","o","w","e","r","b","i">>, <<"t","a","b","l","e","a","u">>, <<"p","o","w","e","r"," ","b","i">>,
       <<"d","a","t","a"," ","v","i","s","u","a","l","i","z","a","t","i","o","n">>, <<"a","g","i","l","e">>, <<"s","c","r","u","m">>, <<"j","i","r","a">>,
       <<"p","r","o","j","e","c","t"," ","m","a","n","a","g","e","m","e","n","t">>, <<"p","m","p">>, <<"l","i","n","u","x">>, <<"u","n","i","x">>, <<"w","i","n","d","o","w","s">>,
       <<"g","i","t">>, <<"g","i","t","h","u","b">>, <<"g","i","t","l","a","b">>, <<"a","p","i">>, <<"r","e","s","t">>, <<"g","r","a","p","h","q","l">>,
       <<"m","i","c","r","o","s","e","r","v","i","c","e","s">>, <<"s","e","r","v","e","r","l","e","s","s">>, <<"f","i","n","a","n","c","i","a","l"," ","a","n","a","l","y","s","i","s">>,
       <<"b","u","d","g","e","t","i","n","g">>, <<"f","o","r","e","c","a","s","t","i","n","g">>, <<"a","c","c","o","u","n","t","i","n","g">>,
       <<"s","t","r","a","t","e","g","i","c"," ","p","l","a","n","n","i","n","g">>, <<"b","u","s","i","n","e","s","s"," ","d","e","v","e","l","o","p","m","e","n","t">>, <<"m","a","r","k","e","t","i","n","g">>,
       <<"s","a","l","e","s">>, <<"c","u","s","t","o","m","e","r"," ","r","e","l","a","t","i","o","n","s","h","i","p"," ","m","a","n","a","g","e","m","e","n","t">>, <<"c","r","m">>, <<"s","a","p">>,
       <<"e","r","p">>, <<"c","o","m","m","u","n","i","c","a","t","i","o","n">>, <<"l","e","a","d","e","r","s","h","i","p">>, <<"t","e","a","m","w","o","r","k">>,
       <<"p","r","o","b","l","e","m"," ","s","o","l","v","i","n","g">>, <<"c","r","i","t","i","c","a","l"," ","t","h","i","n","k","i","n","g">>, <<"t","i","m","e"," ","m","a","n","a","g","e","m","e","n","t">>,
       <<"o","r","g","a","n","i","z","a","t","i","o","n">> >>

\* related_skills: skill -> the skills related to it (spelt as in the source)
RelatedKeys ==
    << <<"p","y","t","h","o","n">>, <<"j","a","v","a">>, <<"j","a","v","a","s","c","r","i","p","t">>, <<"s","q","l">>, <<"a","w","s">>, <<"d","o","c","k","e","r">>,
       <<"t","a","b","l","e","a","u">>, <<"e","x","c","e","l">>, <<"a","g","i","l","e">>, <<"m","a","c","h","i","n","e"," ","l","e","a","r","n","i","n","g">> >>

RelatedLists ==
    << << <<"d","j","a","n","g","o">>, <<"f","l","a","s","k">>, <<"p","a","n","d","a","s">>, <<"n","u","m","p","y">>, <<"d","a","t","a"," ","s","c","i","e","n","c","e">>,
          <<"m","a","c","h","i","n","e"," ","l","e","a","r","n","i","n","g">>, <<"A","I">> >>,
       << <<"s","p","r","i","n","g">>, <<"h","i","b","e","r","n","a","t","e">>, <<"j","2","e","e">>, <<"a","n","d","r","o","i","d">> >>,
       << <<"t","y","p","e","s","c","r","i","p","t">>, <<"n","o","d","e",".","j","s">>, <<"r","e","a","c","t">>, <<"a","n","g","u","l","a","r">>, <<"v","u","e">>,
          <<"f","r","o","n","t","-","e","n","d">> >>,
       << <<"m","y","s","q","l">>, <<"p","o","s","t","g","r","e","s","q","l">>, <<"o","r","a","c","l","e">>, <<"d","a","t","a","b","a","s","e">>,
          <<"d","a","t","a"," ","a","n","a","l","y","s","i","s">> >>,
       << <<"c","l","o","u","d">>, <<"a","z","u","r","e">>, <<"g","c","p">>, <<"d","e","v","o","p","s">>, <<"i","n","f","r","a","s","t","r","u","c","t","u","r","e">> >>,
       << <<"k","u","b","e","r","n","e","t","e","s">>, <<"c","o","n","t","a","i","n","e","r","s">>, <<"d","e","v","o","p","s">>, <<"m","i","c","r","o","s","e","r","v","i","c","e","s">> >>,
       << <<"p","o","w","e","r"," ","b","i">>, <<"d","a","t","a"," ","v","i","s","u","a","l","i","z","a","t","i","o","n">>, <<"a","n","a","l","y","t","i","c","s">>, <<"r","e","p","o","r","t","i","n","g">> >>,
       << <<"s","p","r","e","a","d","s","h","e","e","t","s">>, <<"d","a","t","a"," ","a","n","a","l","y","s","i","s">>, <<"f","i","n","a","n","c","i","a","l"," ","m","o","d","e","l","i","n","g">> >>,
       << <<"s","c","r","u","m">>, <<"k","a","n","b","a","n">>, <<"j","i","r","a">>, <<"p","r","o","j","e","c","t"," ","m","a","n","a","g","e","m","e","n","t">> >>,
       << <<"a","i">>, <<"d","a","t","a"," ","s","c","i","e","n","c","e">>, <<"d","e","e","p"," ","l","e","a","r","n","i","n","g">>, <<"n","l","p">> >> >>

\* related_skills.get(skill, [])
related_skills(skill) ==
    LET hits == {n \in DOMAIN RelatedKeys : RelatedKeys[n] = skill}
    IN  IF hits = {} THEN <<>> ELSE RelatedLists[Min(hits)]

\* \b of re at position i (between s[i-1] and s[i])
WordBoundary(s, i) ==
    LET before == i > 1 /\ i - 1 <= Len(s) /\ IsWordChar(s[i - 1])
        after == i >= 1 /\ i <= Len(s) /\ IsWordChar(s[i])
    IN  before # after

\* re.search(r'\b' + re.escape(word) + r'\b', text)
WordSearch(word, text) ==
    \E i \in 1..Len(text) :
        /\ MatchAt(text, word, i)
        /\ WordBoundary(text, i)
        /\ WordBoundary(text, i + Len(word))

\* [x for x in xs if P(x)], xs a sequence
SelectFrom(xs, keep) ==
    LET Keep(x) == x \in keep
    IN  SelectSeq(xs, Keep)

RECURSIVE Flatten(_)
Flatten(xss) == IF xss = <<>> THEN <<>> ELSE Head(xss) \o Flatten(Tail(xss))

\* The skills of common_skills found as whole words in a lowercased text.
SkillsIn(text_lower) ==
    SelectFrom(common_skills, {s \in Range(common_skills) : WordSearch(s, text_lower)})

\* First loop over jd_skills: f"{related_skill} (related to {jd_skill})"
RelatedTo(jd_skills, exact_matches, resume_lower) ==
    LET ForSkill(jd_skill) ==
            IF jd_skill \in Range(exact_matches) THEN <<>>
            ELSE LET rel == related_skills(jd_skill)
                     ok == {r \in Range(rel) :
                               /\ WordSearch(lower(r), resume_lower)
                               /\ lower(r) \notin {lower(m) : m \in Range(exact_matches)}}
                     picked == [n \in 1..Len(rel) |->
                                   IF rel[n] \in ok
                                   THEN <<rel[n] \o <<" ","(","r","e","l","a","t","e","d"," ","t","o"," ">> \o jd_skill \o <<")">>>>
                                   ELSE <<>>]
                 IN  Flatten(picked)
    IN  Flatten([n \in 1..Len(jd_skills) |-> ForSkill(jd_skills[n])])

\* Second loop: resume skills of common_skills outside jd_skills,
\* f"{skill} (transferable to {jd_skill})", appended unless already listed.
RECURSIVE AppendNew(_, _)
AppendNew(acc, items) ==
    IF items = <<>> THEN acc
    ELSE AppendNew(IF Head(items) \in Range(acc) THEN acc ELSE Append(acc, Head(items)),
                   Tail(items))

Transferable(jd_skills, resume_lower) ==
    LET ForSkill(skill) ==
            Flatten([n \in 1..Len(jd_skills) |->
                IF skill \in Range(related_skills(jd_skills[n]))
                   \/ jd_skills[n] \in Range(related_skills(skill))
                THEN <<skill \o <<" ","(","t","r","a","n","s","f","e","r","a","b","l","e"," ","t","o"," ">> \o jd_skills[n] \o <<")">>>>
                ELSE <<>>])
        Each(found) == Flatten([n \in 1..Len(found) |-> ForSkill(found[n])])
    IN  Each(SelectFrom(common_skills,
                        {s \in Range(common_skills) \ Range(jd_skills) :
                            WordSearch(s, resume_lower)}))

\* f"{num/den:.1f}" for a non-negative value
Fixed1(num, den) ==
    LET n == RoundHalfEven(10 * num, den)
    IN  IntToDigits(n \div 10) \o <<".">> \o IntToDigits(n % 10)

\* "- {item}\n" for every item
RECURSIVE Bullets(_)
Bullets(items) ==
    IF items = <<>> THEN <<>>
    ELSE <<"-"," ">> \o Head(items) \o <<"\n">> \o Bullets(Tail(items))

RECURSIVE FoundInBoth(_)
FoundInBoth(items) ==
    IF items = <<>> THEN <<>>
    ELSE <<"-"," ">> \o upper(Head(items)) \o <<":"," ","F","o","u","n","d"," ","i","n"," ","b","o","t","h"," ","r","e","s","u","m","e"," ","a","n","d"," ","j","o","b"," ","d","e","s","c","r","i","p","t","i","o","n","\n">>
         \o FoundInBoth(Tail(items))

\* partial_score as a numerator over the denominator of its arguments:
\* interpolated between min_related_score and max_related_score by the share
\* of the missing skills that related matches cover.
PartialScoreNum(min_related, max_related, related, missing) ==
    IF related > 0
    THEN IF missing > 0
         THEN IF related >= missing THEN max_related
              ELSE min_related + ((max_related - min_related) * related) \div missing
         ELSE max_related
    ELSE min_related

\* calculate_skills_scores(resume_text, job_description)
calculate_skills_scores(resume, jd) ==
    LET resume_lower == lower(resume)
        jd_lower == lower(jd)
        jd_skills == SkillsIn(jd_lower)
        exact_matches ==
            SelectFrom(jd_skills, {s \in Range(jd_skills) : WordSearch(s, resume_lower)})
        related_matches ==
            AppendNew(RelatedTo(jd_skills, exact_matches, resume_lower),
                      Transferable(jd_skills, resume_lower))
        missing_skills_count == Len(jd_skills) - Len(exact_matches)
        \* every score below is a numerator over den
        den == 5 * MaxOf(Len(jd_skills), 1) * MaxOf(missing_skills_count, 1)
        strong_score == IF jd_skills = <<>> THEN 50 * den
                        ELSE (100 * Len(exact_matches) * den) \div Len(jd_skills)
        max_related_score == MinOf(80 * den, strong_score + 20 * den)
        min_related_score == MaxOf(30 * den, (strong_score * 3) \div 5)
        partial_score == PartialScoreNum(min_related_score, max_related_score,
                                         Len(related_matches),
                                         missing_skills_count)
        strong_reasoning ==
            IF jd_skills = <<>>
            THEN <<"N","o"," ","s","p","e","c","i","f","i","c"," ","t","e","c","h","n","i","c","a","l"," ","s","k","i","l","l","s"," ","i","d","e","n","t","i","f","i","e","d"," ","i","n"," ","t","h","e"," ","j","o","b"," ","d","e","s","c","r","i","p","t","i","o","n","."," ","U","s","i","n","g"," ","d","e","f","a","u","l","t"," ","m","i","d","d","l","e"," ","s","c","o","r","e",".">>
            ELSE <<"F","o","u","n","d"," ">> \o IntToStr(Len(exact_matches)) \o <<" ","e","x","a","c","t"," ","m","a","t","c","h","e","s"," ","o","u","t"," ","o","f"," ">>
                 \o IntToStr(Len(jd_skills)) \o <<" ","r","e","q","u","i","r","e","d"," ","s","k","i","l","l","s"," ","(">>
                 \o Fixed1(strong_score, den) \o <<"%",")",".","\n","\n">>
                 \o <<"E","x","a","c","t"," ","s","k","i","l","l"," ","m","a","t","c","h","e","s",":","\n">>
                 \o (IF exact_matches # <<>> THEN FoundInBoth(exact_matches)
                     ELSE <<"-"," ","N","o"," ","e","x","a","c","t"," ","s","k","i","l","l"," ","m","a","t","c","h","e","s"," ","f","o","u","n","d","\n">>)
                 \o <<"\n","M","i","s","s","i","n","g"," ","s","k","i","l","l","s"," ","f","r","o","m"," ","j","o","b"," ","d","e","s","c","r","i","p","t","i","o","n",":","\n">>
                 \o Bullets(SelectFrom(jd_skills,
                                       Range(jd_skills) \ Range(exact_matches)))
        partial_reasoning ==
            <<"F","o","u","n","d"," ">> \o IntToStr(Len(related_matches))
            \o <<" ","r","e","l","a","t","e","d","/","t","r","a","n","s","f","e","r","a","b","l","e"," ","s","k","i","l","l","s"," ","(">> \o Fixed1(partial_score, den)
            \o <<"%",")",".","\n","\n">> \o <<"R","e","l","a","t","e","d"," ","s","k","i","l","l"," ","m","a","t","c","h","e","s",":","\n">>
            \o (IF related_matches # <<>> THEN Bullets(related_matches)
                ELSE <<"-"," ","N","o"," ","r","e","l","a","t","e","d"," ","s","k","i","l","l"," ","m","a","t","c","h","e","s"," ","f","o","u","n","d","\n">>)
    IN  [strong_score |-> RoundHalfEven(strong_score, den),
         partial_score |-> RoundHalfEven(partial_score, den),
         strong_reasoning |-> strong_reasoning,
         partial_reasoning |-> partial_reasoning,
         jd_skills |-> jd_skills,
         exact_matches |-> exact_matches,
         related_matches |-> related_matches,
         strong_exact |-> [num |-> strong_score, den |-> den],
         partial_exact |-> [num |-> partial_score, den |-> den],
         min_related_score |-> [num |-> min_related_score, den |-> den],
         max_related_score |-> [num |-> max_related_score, den |-> den]]

-----------------------------------------------------------------------------
(* parse_analysis: the fallback                                              *)

\* Mutant of FallbackCondition: one absent or "0" score is enough.
FallbackConditionEither(res, resume, jd) ==
    /\ \/ res["Strong Matches Score"] = NotAvailable
       \/ res["Strong Matches Score"] = <<"0">>
       \/ res["Partial Matches Score"] = NotAvailable
       \/ res["Partial Matches Score"] = <<"0">>
    /\ Truthy(resume)
    /\ Truthy(jd)

\* The condition of the "IMPORTANT FALLBACK" if statement.
FallbackCondition(res, resume, jd) ==
    /\ (res["Strong Matches Score"] = NotAvailable \/ res["Strong Matches Score"] = <<"0">>)
    /\ (res["Partial Matches Score"] = NotAvailable \/ res["Partial Matches Score"] = <<"0">>)
    /\ Truthy(resume)
    /\ Truthy(jd)

Fallback(res, resume, jd) ==
    IF FallbackCondition(res, resume, jd)
    THEN LET Store(s) ==
                 [res EXCEPT !["Strong Matches Score"] = IntToStr(s.strong_score),
                             !["Partial Matches Score"] = IntToStr(s.partial_score),
                             !["Strong Matches Reasoning"] = s.strong_reasoning,
                             !["Partial Matches Reasoning"] = s.partial_reasoning]
         IN  Store(calculate_skills_scores(resume, jd))
    ELSE res

-----------------------------------------------------------------------------
(* get_planful_competitors, extract_linkedin_url, check_competitor_experience *)

get_planful_competitors ==
    << <<"A","n","a","p","l","a","n">>, <<"W","o","r","k","d","a","y"," ","A","d","a","p","t","i","v","e"," ","P","l","a","n","n","i","n","g">>, <<"O","r","a","c","l","e"," ","E","P","M">>,
       <<"O","r","a","c","l","e"," ","H","y","p","e","r","i","o","n">>, <<"S","A","P"," ","B","P","C">>, <<"I","B","M"," ","P","l","a","n","n","i","n","g"," ","A","n","a","l","y","t","i","c","s">>, <<"T","M","1">>,
       <<"P","r","o","p","h","i","x">>, <<"V","e","n","a"," ","S","o","l","u","t","i","o","n","s">>, <<"J","e","d","o","x">>, <<"O","n","e","S","t","r","e","a","m">>, <<"B","o","a","r","d">>,
       <<"C","e","n","t","a","g","e">>, <<"S","o","l","v","e","r">>, <<"K","e","p","i","o","n">>, <<"H","o","s","t"," ","A","n","a","l","y","t","i","c","s">>,
       <<"C","C","H"," ","T","a","g","e","t","i","k">>, <<"I","n","f","o","r"," ","C","P","M">>, <<"S","y","n","t","e","l","l","i","s">>, <<"L","o","n","g","v","i","e","w">> >>

\* [\w-]
IsIdChar(c) == IsWordChar(c) \/ c = "-"

RECURSIVE SpanId(_, _)
SpanId(s, i) == IF i <= Len(s) /\ IsIdChar(s[i]) THEN SpanId(s, i + 1) ELSE i

RECURSIVE SpanNonSpace(_, _)
SpanNonSpace(s, i) ==
    IF i <= Len(s) /\ ~IsSpace(s[i]) THEN SpanNonSpace(s, i + 1) ELSE i

\* The end (exclusive) of (?:/[\w-]+)* from e.
RECURSIVE SpanSegments(_, _)
SpanSegments(s, e) ==
    IF e <= Len(s) /\ s[e] = "/" /\ SpanId(s, e + 1) > e + 1
    THEN SpanSegments(s, SpanId(s, e + 1))
    ELSE e

\* The end (exclusive) of [\w-]+(?:/[\w-]+)* from i, 0 without a match.
PathEnd(s, i) == IF SpanId(s, i) = i THEN 0 ELSE SpanSegments(s, SpanId(s, i))

\* The end (exclusive) of https?://(?:www\.)? from i in t, 0 without a match.
SchemeEnd(t, i) ==
    LET b == IF MatchAt(t, <<"h","t","t","p","s">>, i) THEN i + 5 ELSE i + 4
        c == b + 3
    IN  IF MatchAt(t, <<"h","t","t","p">>, i) /\ MatchAt(t, <<":","/","/">>, b)
        THEN c
        ELSE 0

\* The end (exclusive) of a match at i of
\*   https?://(?:www\.)?linkedin\.com/in/[\w-]+(?:/[\w-]+)*
\* where t is s, lowercased under re.IGNORECASE; 0 without a match.
LinkedInFullEnd(s, t, i) ==
    LET c == SchemeEnd(t, i)
        d == IF MatchAt(t, <<"w","w","w",".">>, c) THEN c + 4 ELSE c
    IN  IF c # 0 /\ MatchAt(t, <<"l","i","n","k","e","d","i","n",".","c","o","m","/","i","n","/">>, d) THEN PathEnd(s, d + 16)
        ELSE 0

\* linkedin\.com/in/[\w-]+(?:/[\w-]+)*
LinkedInBareEnd(s, t, i) ==
    IF MatchAt(t, <<"l","i","n","k","e","d","i","n",".","c","o","m","/","i","n","/">>, i) THEN PathEnd(s, i + 16) ELSE 0

\* www\.linkedin\.com/in/[\w-]+(?:/[\w-]+)*
LinkedInWwwEnd(s, t, i) ==
    IF MatchAt(t, <<"w","w","w",".","l","i","n","k","e","d","i","n",".","c","o","m","/","i","n","/">>, i) THEN PathEnd(s, i + 20) ELSE 0

\* linkedin:\s*https?://(?:www\.)?linkedin\.com/in/[\w-]+
LinkedInLabelledEnd(s, t, i) ==
    LET a == SpanSpace(s, i + 9)
        c == SchemeEnd(t, a)
        d == IF MatchAt(t, <<"w","w","w",".">>, c) THEN c + 4 ELSE c
    IN  IF MatchAt(t, <<"l","i","n","k","e","d","i","n",":">>, i) /\ c # 0
           /\ MatchAt(t, <<"l","i","n","k","e","d","i","n",".","c","o","m","/","i","n","/">>, d) /\ SpanId(s, d + 16) > d + 16
        THEN SpanId(s, d + 16)
        ELSE 0

\* The end of the match of pattern n of extract_linkedin_url at i.
LinkedInPatternEnd(n, s, t, i) ==
    CASE n = 1 -> LinkedInFullEnd(s, t, i)
      [] n = 2 -> LinkedInBareEnd(s, t, i)
      [] n = 3 -> LinkedInWwwEnd(s, t, i)
      [] n = 4 -> LinkedInLabelledEnd(s, t, i)

\* str.replace(old, new), all occurrences, left to right
RECURSIVE replace(_, _, _)
replace(s, old, new) ==
    LET i == Find(s, old)
    IN  IF i = 0 \/ old = <<>> THEN s
        ELSE SubSeq(s, 1, i - 1) \o new \o replace(From(s, i + Len(old)), old, new)

\* re.sub(r'[.,;:)\s]+$', '', url) on a url without a newline
RECURSIVE StripTrailingPunctuation(_)
StripTrailingPunctuation(url) ==
    IF url # <<>> /\ (url[Len(url)] \in {".", ",", ";", ":", ")"} \/ IsSpace(url[Len(url)]))
    THEN StripTrailingPunctuation(SubSeq(url, 1, Len(url) - 1))
    ELSE url

\* The url built from the first match of one of the four patterns.
LinkedInFromMatch(url) ==
    LET prefixed ==
            IF startswith(url, <<"h","t","t","p">>) THEN url
            ELSE LET u == <<"h","t","t","p","s",":","/","/">>
                          \o (IF startswith(url, <<"w","w","w",".">>) \/ startswith(url, <<"l","i","n","k","e","d","i","n",".","c","o","m">>)
                              THEN <<>> ELSE <<"w","w","w",".">>)
                          \o url
                 IN  IF startswith(u, <<"h","t","t","p","s",":","/","/","l","i","n","k","e","d","i","n",".","c","o","m">>)
                     THEN replace(u, <<"h","t","t","p","s",":","/","/","l","i","n","k","e","d","i","n",".","c","o","m">>, <<"h","t","t","p","s",":","/","/","w","w","w",".","l","i","n","k","e","d","i","n",".","c","o","m">>)
                     ELSE u
    IN  StripTrailingPunctuation(prefixed)

\* The last resort: re.search(r'linkedin[\s:]*([^\s]+)', text, re.IGNORECASE).
\* group(1) is the run of non-space characters after the label and its
\* separators; when the text ends inside the separators the group can only
\* hold colons, which is no url, and "" stands for it here.
LinkedInMention(s) ==
    LET t == lower(s)
        hits == {i \in 1..Len(s) : MatchAt(t, <<"l","i","n","k","e","d","i","n">>, i)}
        RECURSIVE SpanSep(_)
        SpanSep(i) == IF i <= Len(s) /\ (IsSpace(s[i]) \/ s[i] = ":")
                      THEN SpanSep(i + 1) ELSE i
        b == SpanSep(Min(hits) + 8)
    IN  IF hits = {} THEN <<>> ELSE SubSeq(s, b, SpanNonSpace(s, b) - 1)

\* extract_linkedin_url(text)
extract_linkedin_url(text) ==
    IF ~Truthy(text) THEN <<>>
    ELSE
    LET t == lower(text)
        Starts(n) == {i \in 1..Len(text) : LinkedInPatternEnd(n, text, t, i) > 0}
        matching == {n \in 1..4 : Starts(n) # {}}
        n1 == Min(matching)
        i1 == Min(Starts(n1))
        potential_url == LinkedInMention(text)
        url == StripTrailingPunctuation(potential_url)
    IN  IF matching # {}
        THEN LinkedInFromMatch(SubSeq(text, i1, LinkedInPatternEnd(n1, text, t, i1) - 1))
        ELSE IF Contains(potential_url, <<".">>) /\ Contains(potential_url, <<"/">>)
        THEN IF startswith(url, <<"h","t","t","p">>) THEN url
             ELSE <<"h","t","t","p","s",":","/","/">> \o (IF startswith(url, <<"w","w","w",".">>) THEN <<>> ELSE <<"w","w","w",".">>) \o url
        ELSE <<>>

\* check_competitor_experience(work_history, competitor_list)
check_competitor_experience(work_history, competitor_list) ==
    IF ~Truthy(work_history) \/ work_history = NotAvailable THEN <<>>
    ELSE LET hits == {n \in DOMAIN competitor_list :
                         WordSearch(lower(competitor_list[n]), lower(work_history))}
         IN  IF hits = {} THEN <<>>
             ELSE <<"Y","e","s"," ","-"," ">> \o competitor_list[Min(hits)]

-----------------------------------------------------------------------------
(* clean_text                                                                *)

\* The position of the nearest d at or after j that closes a pair opened
\* before j: no newline in between ('.' does not match one); 0 when none.
ClosingAt(s, d, j) ==
    LET hits == {k \in j..Len(s) :
                    MatchAt(s, d, k) /\ \A m \in j..(k - 1) : s[m] # "\n"}
    IN  IF hits = {} THEN 0 ELSE Min(hits)

\* re.sub(re.escape(d) + r'(.*?)' + re.escape(d), r'\1', s), scanning from i:
\* the text up to the next pair, the inside of the pair, and the rest.
RECURSIVE RemovePairsFrom(_, _, _)
RemovePairsFrom(s, d, i) ==
    LET opens == {k \in i..Len(s) :
                     MatchAt(s, d, k) /\ ClosingAt(s, d, k + Len(d)) # 0}
        Pair(k, j) ==
            SubSeq(s, i, k - 1) \o SubSeq(s, k + Len(d), j - 1)
            \o RemovePairsFrom(s, d, j + Len(d))
        At(k) == Pair(k, ClosingAt(s, d, k + Len(d)))
    IN  IF opens = {} THEN From(s, i) ELSE At(Min(opens))

RemovePairs(s, d) == RemovePairsFrom(s, d, 1)

\* ^ under re.MULTILINE
AtLineStart(s, i) == i = 1 \/ s[i - 1] = "\n"

\* The end (exclusive) of a match of ^\s*[-*]\s+ at i, 0 without one.  (The
\* third bullet character of the class is outside the model's alphabet.)
BulletEnd(s, i) ==
    LET a == SpanSpace(s, i)
    IN  IF AtLineStart(s, i) /\ a <= Len(s) /\ s[a] \in {"-", "*"}
           /\ SpanSpace(s, a + 1) > a + 1
        THEN SpanSpace(s, a + 1)
        ELSE 0

\* The end (exclusive) of a match of ^\s*\d+\.\s+ at i, 0 without one.
NumberingEnd(s, i) ==
    LET a == SpanSpace(s, i)
        b == SpanDigits(s, a)
    IN  IF AtLineStart(s, i) /\ b > a /\ b <= Len(s) /\ s[b] = "."
           /\ SpanSpace(s, b + 1) > b + 1
        THEN SpanSpace(s, b + 1)
        ELSE 0

\* re.sub of the bullet pattern, scanning from i
RECURSIVE RemoveBulletsFrom(_, _)
RemoveBulletsFrom(s, i) ==
    LET starts == {k \in i..Len(s) : BulletEnd(s, k) # 0}
        At(k) == SubSeq(s, i, k - 1) \o RemoveBulletsFrom(s, BulletEnd(s, k))
    IN  IF starts = {} THEN From(s, i) ELSE At(Min(starts))

\* re.sub of the numbering pattern, scanning from i
RECURSIVE RemoveNumberingFrom(_, _)
RemoveNumberingFrom(s, i) ==
    LET starts == {k \in i..Len(s) : NumberingEnd(s, k) # 0}
        At(k) == SubSeq(s, i, k - 1) \o RemoveNumberingFrom(s, NumberingEnd(s, k))
    IN  IF starts = {} THEN From(s, i) ELSE At(Min(starts))

\* The character of inline code spans (U+0060), named because the lexer of
\* TLA+ does not accept it inside a string.
Backquote == "<backquote>"

\* clean_text(text)
clean_text(text) ==
    IF ~Truthy(text) \/ text = NotAvailable THEN text
    ELSE LET bold == RemovePairs(text, <<"*","*">>)
             italic == RemovePairs(bold, <<"*">>)
             underline == RemovePairs(italic, <<"_","_">>)
             italic2 == RemovePairs(underline, <<"_">>)
             code == RemovePairs(italic2, <<Backquote>>)
             bullets == RemoveBulletsFrom(code, 1)
             numbering == RemoveNumberingFrom(bullets, 1)
         IN  strip(numbering)

-----------------------------------------------------------------------------
(* extract_phone_number                                                      *)

\* [-.\s]
IsPhoneSep(c) == c \in {"-", "."} \/ IsSpace(c)

\* s[i .. i+n-1] are n digits
DigitsAt(s, i, n) == i >= 1 /\ i + n - 1 <= Len(s) /\ \A k \in 0..(n - 1) : IsDigit(s[i + k])

\* The end (exclusive) of \(?\d{3}\)?[-.\s]?\d{3}[-.\s]?\d{4}\b from j, 0
\* without a match.  Every optional item is taken exactly when its character
\* is there: leaving it out would need a digit in its place.
PhoneBodyEnd(s, j) ==
    LET a == IF j <= Len(s) /\ s[j] = "(" THEN j + 1 ELSE j
        b == a + 3
        c == IF b <= Len(s) /\ s[b] = ")" THEN b + 1 ELSE b
        d == IF c <= Len(s) /\ IsPhoneSep(s[c]) THEN c + 1 ELSE c
        e == d + 3
        f == IF e <= Len(s) /\ IsPhoneSep(s[e]) THEN e + 1 ELSE e
        g == f + 4
    IN  IF DigitsAt(s, a, 3) /\ DigitsAt(s, d, 3) /\ DigitsAt(s, f, 4)
           /\ WordBoundary(s, g)
        THEN g
        ELSE 0

\* Pattern 1: \b(?:\+\d{1,3}[-.\s]?)?\(?\d{3}\)?[-.\s]?\d{3}[-.\s]?\d{4}\b
PhonePattern1End(s, i) ==
    LET AfterPrefix(k) ==
            IF i + k + 1 <= Len(s) /\ IsPhoneSep(s[i + k + 1]) THEN i + k + 2
            ELSE i + k + 1
        ks == {k \in 1..3 : DigitsAt(s, i + 1, k) /\ PhoneBodyEnd(s, AfterPrefix(k)) # 0}
    IN  IF ~WordBoundary(s, i) THEN 0
        ELSE IF s[i] = "+"
        THEN (IF ks = {} THEN 0 ELSE PhoneBodyEnd(s, AfterPrefix(Max(ks))))
        ELSE PhoneBodyEnd(s, i)

\* Pattern 2: \b\d{10}\b
PhonePattern2End(s, i) ==
    IF WordBoundary(s, i) /\ DigitsAt(s, i, 10) /\ WordBoundary(s, i + 10)
    THEN i + 10 ELSE 0

\* Pattern 3: \b\d{3}[-.\s]\d{3}[-.\s]\d{4}\b
PhonePattern3End(s, i) ==
    IF /\ WordBoundary(s, i) /\ DigitsAt(s, i, 3)
       /\ i + 3 <= Len(s) /\ IsPhoneSep(s[i + 3]) /\ DigitsAt(s, i + 4, 3)
       /\ i + 7 <= Len(s) /\ IsPhoneSep(s[i + 7]) /\ DigitsAt(s, i + 8, 4)
       /\ WordBoundary(s, i + 12)
    THEN i + 12 ELSE 0

\* Pattern 4: \b\+\d{1,3}\s?\d{6,14}\b
PhonePattern4End(s, i) ==
    LET e1 == SpanDigits(s, i + 1)
        n1 == e1 - (i + 1)
        a == IF e1 <= Len(s) /\ IsSpace(s[e1]) THEN e1 + 1 ELSE e1
        e2 == SpanDigits(s, a)
        n2 == e2 - a
    IN  IF ~(WordBoundary(s, i) /\ s[i] = "+" /\ n1 >= 1) THEN 0
        ELSE IF n1 <= 3
        THEN (IF n2 >= 6 /\ n2 <= 14 /\ WordBoundary(s, e2) THEN e2 ELSE 0)
        ELSE IF \E k \in 1..3 : n1 - k >= 6 /\ n1 - k <= 14
        THEN (IF WordBoundary(s, e1) THEN e1 ELSE 0)
        ELSE 0

PhonePatternEnd(n, s, i) ==
    CASE n = 1 -> PhonePattern1End(s, i)
      [] n = 2 -> PhonePattern2End(s, i)
      [] n = 3 -> PhonePattern3End(s, i)
      [] n = 4 -> PhonePattern4End(s, i)

\* extract_phone_number(text)
extract_phone_number(text) ==
    IF ~Truthy(text) THEN NotAvailable
    ELSE LET Starts(n) == {i \in 1..Len(text) : PhonePatternEnd(n, text, i) > 0}
             matching == {n \in 1..4 : Starts(n) # {}}
             n1 == Min(matching)
             i1 == Min(Starts(n1))
         IN  IF matching = {} THEN NotAvailable
             ELSE SubSeq(text, i1, PhonePatternEnd(n1, text, i1) - 1)

-----------------------------------------------------------------------------
(* parse_analysis: heuristic normalisation                                   *)

\* Normalize College Rating
NormalizeCollegeRating(v) ==
    IF v = NotAvailable THEN v
    ELSE IF Contains(lower(v), <<"p","r","e","m","i","u","m">>) THEN <<"P","r","e","m","i","u","m">>
    ELSE IF Contains(lower(v), <<"n","o","n">>) \/ Contains(lower(v), <<"n","o","t">>) THEN <<"N","o","n","-","P","r","e","m","i","u","m">>
    ELSE v

\* Normalize International Team Experience
NormalizeInternational(v) ==
    IF v = NotAvailable THEN v
    ELSE IF AnyIn(<< <<"y","e","s">>, <<"h","a","s">>, <<"w","o","r","k","e","d">>, <<"e","x","p","e","r","i","e","n","c","e">> >>, lower(v))
    THEN (IF Len(v) < 5 THEN <<"Y","e","s">> ELSE v)
    ELSE IF AnyIn(<< <<"n","o">>, <<"n","o","t">>, <<"n","o","n","e">> >>, lower(v))
    THEN (IF Len(v) < 5 THEN <<"N","o">> ELSE v)
    ELSE v

\* re.search(r'https?://(?:www\.)?linkedin\.com/in/[\w-]+(?:/[\w-]+)*', v):
\* group(0), or PyNone.  Case-sensitive.
SearchLinkedInFull(v) ==
    LET starts == {i \in 1..Len(v) : LinkedInFullEnd(v, v, i) > 0}
    IN  IF starts = {} THEN PyNone
        ELSE SubSeq(v, Min(starts), LinkedInFullEnd(v, v, Min(starts)) - 1)

\* Handle LinkedIn URL extraction
NormalizeLinkedIn(v, resume) ==
    IF Truthy(resume) /\ (v = NotAvailable \/ ~Truthy(v))
    THEN extract_linkedin_url(resume)
    ELSE IF v # NotAvailable
    THEN IF SearchLinkedInFull(v) # PyNone THEN SearchLinkedInFull(v)
         ELSE IF Truthy(extract_linkedin_url(v)) THEN extract_linkedin_url(v)
         ELSE v
    ELSE v

\* A match at i of the domain alternatives of the portfolio pattern followed
\* by "/" and a non-space character:
\*   (?:github\.com|gitlab\.com|bitbucket\.org|behance\.net|dribbble\.com
\*      |[\w-]+\.(?:com|io|org|net))/\S+
PortfolioDomainAt(s, d) ==
    LET Tail1(e) == e <= Len(s) /\ s[e] = "/" /\ SpanNonSpace(s, e + 1) > e + 1
        label == SpanId(s, d)
    IN  \/ \E lit \in { <<"g","i","t","h","u","b",".","c","o","m">>, <<"g","i","t","l","a","b",".","c","o","m">>, <<"b","i","t","b","u","c","k","e","t",".","o","r","g">>,
                        <<"b","e","h","a","n","c","e",".","n","e","t">>, <<"d","r","i","b","b","b","l","e",".","c","o","m">> } :
               MatchAt(s, lit, d) /\ Tail1(d + Len(lit))
        \/ /\ label > d
           /\ label <= Len(s)
           /\ s[label] = "."
           /\ \E tld \in { <<"c","o","m">>, <<"i","o">>, <<"o","r","g">>, <<"n","e","t">> } :
                  MatchAt(s, tld, label + 1) /\ Tail1(label + 1 + Len(tld))

\* re.search of the portfolio pattern in v: group(0), or PyNone.  The match
\* runs to the end of the run of non-space characters it starts in.
SearchPortfolio(v) ==
    LET At(i) ==
            LET c == SchemeEnd(v, i)
            IN  /\ c # 0
                /\ \/ (MatchAt(v, <<"w","w","w",".">>, c) /\ PortfolioDomainAt(v, c + 4))
                   \/ PortfolioDomainAt(v, c)
        starts == {i \in 1..Len(v) : At(i)}
    IN  IF starts = {} THEN PyNone
        ELSE SubSeq(v, Min(starts), SpanNonSpace(v, Min(starts)) - 1)

\* Clean up Portfolio URL
NormalizePortfolio(v) ==
    IF v # NotAvailable
    THEN IF SearchPortfolio(v) # PyNone THEN SearchPortfolio(v)
         ELSE IF \/ Contains(lower(v), <<"n","o","t"," ","a","v","a","i","l","a","b","l","e">>)
                 \/ Contains(lower(v), <<"n","o","t"," ","f","o","u","n","d">>)
                 \/ Contains(lower(v), <<"n","o","t"," ","m","e","n","t","i","o","n","e","d">>)
         THEN <<>>
         ELSE v
    ELSE <<>>

\* Use Latest Company if Work History is not available
NormalizeWorkHistory(work_history, latest_company) ==
    IF work_history = NotAvailable /\ latest_company # NotAvailable
    THEN latest_company
    ELSE work_history

\* Handle Competitor Experience
NormalizeCompetitor(v, work_history) ==
    IF v = NotAvailable \/ ~Truthy(v)
    THEN check_competitor_experience(work_history, get_planful_competitors)
    ELSE IF Contains(lower(v), <<"n","o">>) \/ Contains(lower(v), <<"n","o","t">>) THEN <<>>
    ELSE IF ~startswith(lower(v), <<"y","e","s">>)
    THEN LET hits == {n \in DOMAIN get_planful_competitors :
                         Contains(lower(v), lower(get_planful_competitors[n]))}
         IN  IF hits = {} THEN <<>>
             ELSE <<"Y","e","s"," ","-"," ">> \o get_planful_competitors[Min(hits)]
    ELSE v

\* The normalisation steps of parse_analysis, in the order of the code.
NormalizeFields(res, resume) ==
    LET work_history == NormalizeWorkHistory(res["Work History"], res["Latest Company"])
    IN  [res EXCEPT
            !["College Rating"] = NormalizeCollegeRating(@),
            !["International Team Experience"] = NormalizeInternational(@),
            !["LinkedIn URL"] = NormalizeLinkedIn(@, resume),
            !["Portfolio URL"] = NormalizePortfolio(@),
            !["Work History"] = work_history,
            !["Competitor Experience"] = NormalizeCompetitor(@, work_history)]

\* for field in result: result[field] = clean_text(result[field])
CleanFields(res) == [f \in DOMAIN res |-> clean_text(res[f])]

\* str(round(overall_score, 2)); the except handler of calculate_scores
\* returns the int 0, which prints as "0".
OverallText(r) ==
    IF r.recommendation = ErrorInCalculation THEN <<"0">>
    ELSE StrRound(r.overall_score, OverallDen, 2)

\* "Calculate overall score" to "return result": the record with the score,
\* the recommendation and, if resume_text is given, the phone number.
FinishRecord(res, resume) ==
    LET Store(r) ==
            Put(Put(r.data, "Overall Weighted Score", OverallText(r)),
                "Selection Recommendation", r.recommendation)
        WithPhone(scored) ==
            IF Truthy(resume)
            THEN Put(scored, "Phone Number", extract_phone_number(resume))
            ELSE scored
    IN  WithPhone(Store(calculate_scores(res, required_experience,
                                         stability_threshold)))

-----------------------------------------------------------------------------
(* Calls of parse_analysis                                                   *)

\* The longest analysis text, in lines.
MaxLines == 3

\* All sequences of 1..n elements of S
SeqsUpTo(S, n) == UNION {[1..k -> S] : k \in 1..n}

\* The analysis texts of at most MaxLines lines drawn from lines, together
\* with None and the empty text.
Texts(lines) ==
    {PyNone, <<>>} \cup {join_lines(ls) : ls \in SeqsUpTo(lines, MaxLines)}

ResumeSample == <<"P","y","t","h","o","n",","," ","S","Q","L",","," ","c","l","o","u","d","."," ","5","5","5","-","1","2","3","-","4","5","6","7"," ","l","i","n","k","e","d","i","n",".","c","o","m","/","i","n","/","b","o","b">>
JobSample == <<"N","e","e","d"," ","p","y","t","h","o","n",","," ","s","q","l"," ","a","n","d"," ","a","w","s">>

ParseInit(texts, resumes, jds) ==
    /\ analysis \in texts
    /\ resume_text \in resumes
    /\ job_description \in jds
    /\ pc = "start"
    /\ result = EmptyDict
    /\ fallback_called = FALSE
    /\ returned = "pending"
    /\ parsed_data = EmptyDict
    /\ ret = NoCall
    /\ calls = NoCalls
    /\ AppIdle

\* Mutant of Extract: without the guard "if not analysis: return None".
ExtractUnguarded ==
    /\ pc = "start"
    /\ result' = ExtractFields(IF IsStr(analysis) THEN analysis ELSE <<>>)
    /\ pc' = "extracted"
    /\ UNCHANGED <<skills_ret, session_state, tab, calls, parsed_data, ret, analysis, resume_text, job_description,
                   fallback_called, returned>>

\* "if not analysis: return None", then the first and second pass.
Extract ==
    /\ pc = "start"
    /\ IF ~Truthy(analysis)
       THEN /\ returned' = "None"
            /\ pc' = "done"
            /\ UNCHANGED result
       ELSE /\ result' = ExtractFields(analysis)
            /\ pc' = "extracted"
            /\ UNCHANGED returned
    /\ UNCHANGED <<skills_ret, session_state, tab, calls, parsed_data, ret, analysis, resume_text, job_description,
                   fallback_called>>

\* Third pass and the special handling for Job Stability.
PostProcessNumbers ==
    /\ pc = "extracted"
    /\ result' = NumericPostProcess(result)
    /\ pc' = "numeric"
    /\ UNCHANGED <<skills_ret, session_state, tab, calls, parsed_data, ret, analysis, resume_text, job_description,
                   fallback_called, returned>>

\* The fallback to calculate_skills_scores.
FallbackScores ==
    /\ pc = "numeric"
    /\ fallback_called' = FallbackCondition(result, resume_text, job_description)
    /\ result' = Fallback(result, resume_text, job_description)
    /\ pc' = "fallback"
    /\ UNCHANGED <<skills_ret, session_state, tab, calls, parsed_data, ret, analysis, resume_text, job_description,
                   returned>>

\* The normalisation of the fields and clean_text on every field.
Normalize ==
    /\ pc = "fallback"
    /\ result' = CleanFields(NormalizeFields(result, resume_text))
    /\ pc' = "normalized"
    /\ UNCHANGED <<skills_ret, session_state, tab, calls, parsed_data, ret, analysis, resume_text, job_description,
                   fallback_called, returned>>

\* calculate_scores, the score and recommendation fields, the phone number,
\* and "return result".
Finish ==
    /\ pc = "normalized"
    /\ result' = FinishRecord(result, resume_text)
    /\ returned' = "record"
    /\ pc' = "done"
    /\ UNCHANGED <<skills_ret, session_state, tab, calls, parsed_data, ret, analysis, resume_text, job_description,
                   fallback_called>>

ParseNext == Extract \/ PostProcessNumbers \/ FallbackScores \/ Normalize \/ Finish

\* Analysis lines of the extraction properties.
ExtractionLines ==
    { <<"S","t","r","o","n","g"," ","M","a","t","c","h","e","s"," ","S","c","o","r","e",":"," ","7","3">>,
      <<"s","t","r","o","n","g"," ","m","a","t","c","h","e","s",":"," ","6","0">>,
      <<"C","a","n","d","i","d","a","t","e"," ","N","a","m","e",":"," ","B","o","b">>,
      <<>>,
      <<"g","r","e","a","t"," ","f","i","t">>,
      <<"J","o","b"," ","S","t","a","b","i","l","i","t","y",":"," ","H","i","g","h">>,
      <<"T","o","t","a","l"," ","E","x","p","e","r","i","e","n","c","e"," ","(","Y","e","a","r","s",")",":"," ","5"," ","y","e","a","r","s">> }

Init == ParseInit(Texts(ExtractionLines), {PyNone, ResumeSample}, {PyNone, JobSample})

Next == ParseNext

Spec == Init /\ [][Next]_vars

\* Analysis lines of the fallback properties.
FallbackLines ==
    { <<"S","t","r","o","n","g"," ","M","a","t","c","h","e","s"," ","S","c","o","r","e",":"," ","0">>,
      <<"S","t","r","o","n","g"," ","M","a","t","c","h","e","s"," ","S","c","o","r","e",":"," ","0",".","0">>,
      <<"P","a","r","t","i","a","l"," ","M","a","t","c","h","e","s"," ","S","c","o","r","e",":"," ","0">>,
      <<"P","a","r","t","i","a","l"," ","M","a","t","c","h","e","s"," ","S","c","o","r","e",":"," ","4","5">>,
      <<"C","a","n","d","i","d","a","t","e"," ","N","a","m","e",":"," ","B","o","b">> }

FallbackInit ==
    ParseInit(Texts(FallbackLines), {PyNone, <<>>, ResumeSample}, {PyNone, JobSample})

SpecFallback == FallbackInit /\ [][Next]_vars

\* Analysis lines of the label properties; none of them is blank.
LabelLines ==
    { <<"-"," ","S","t","r","o","n","g"," ","M","a","t","c","h","e","s"," ","S","c","o","r","e",":"," ","7","3">>,
      <<"-"," ","s","t","r","o","n","g"," ","m","a","t","c","h","e","s",":"," ","7","3">>,
      <<"C","a","n","d","i","d","a","t","e"," ","N","a","m","e",":"," ","B","o","b">>,
      <<"n","a","m","e",":"," ","B","o","b">>,
      <<"g","r","e","a","t"," ","f","i","t">> }

LabelInit == ParseInit(Texts(LabelLines), {PyNone}, {PyNone})

SpecLabels == LabelInit /\ [][Next]_vars

-----------------------------------------------------------------------------
(* Properties of parse_analysis                                              *)

\* C1: when the analysis text is empty or None, parse_analysis returns None
\* and never a record.
C1_EmptyIsFailure ==
    ~Truthy(analysis) =>
        /\ returned # "record"
        /\ result = EmptyDict
        /\ pc = "done" => returned = "None"

C1_Witness == pc = "done" /\ analysis = <<>> /\ returned = "None"

\* A score that is absent or numerically zero.
AbsentOrZero(v) == v = NotAvailable \/ (FloatOf(v).ok /\ FloatOf(v).milli = 0)

\* A score that is absent or the string "0".
AbsentOrZeroString(v) == v = NotAvailable \/ v = <<"0">>

\* The fields the fallback writes.
FallbackFields ==
    { "Strong Matches Score", "Partial Matches Score",
      "Strong Matches Reasoning", "Partial Matches Reasoning" }

\* C6 as stated: the fallback is invoked if and only if both scores are
\* absent or zero and both texts are supplied; when it is not invoked the
\* record is left as extracted.
C6_FallbackIffAbsentOrZero ==
    [][FallbackScores =>
        /\ fallback_called' <=>
              /\ AbsentOrZero(result["Strong Matches Score"])
              /\ AbsentOrZero(result["Partial Matches Score"])
              /\ Truthy(resume_text)
              /\ Truthy(job_description)
        /\ ~fallback_called' => result' = result]_vars

\* C6 amended: the fallback is invoked if and only if both scores are exactly
\* "Not Available" or the string "0" and both texts are non-empty; it is not
\* invoked when either score is non-zero; when it is invoked the four fields
\* are those of calculate_skills_scores, and when it is not the record is
\* left as extracted.
C6_FallbackIffAbsentOrZeroString ==
    [][FallbackScores =>
        /\ fallback_called' <=>
              /\ AbsentOrZeroString(result["Strong Matches Score"])
              /\ AbsentOrZeroString(result["Partial Matches Score"])
              /\ Truthy(resume_text)
              /\ Truthy(job_description)
        /\ (~AbsentOrZero(result["Strong Matches Score"])
            \/ ~AbsentOrZero(result["Partial Matches Score"])) => ~fallback_called'
        /\ ~fallback_called' => result' = result
        /\ fallback_called' =>
              LET s == calculate_skills_scores(resume_text, job_description)
              IN  /\ result'["Strong Matches Score"] = IntToStr(s.strong_score)
                  /\ result'["Partial Matches Score"] = IntToStr(s.partial_score)
                  /\ result'["Strong Matches Reasoning"] = s.strong_reasoning
                  /\ result'["Partial Matches Reasoning"] = s.partial_reasoning
                  /\ \A f \in Fields \ FallbackFields : result'[f] = result[f]]_vars

C6_Witness ==
    /\ pc = "fallback"
    /\ fallback_called
    /\ analysis = join_lines(<< <<"S","t","r","o","n","g"," ","M","a","t","c","h","e","s"," ","S","c","o","r","e",":"," ","0">>,
                                <<"P","a","r","t","i","a","l"," ","M","a","t","c","h","e","s"," ","S","c","o","r","e",":"," ","0">> >>)
    /\ result["Strong Matches Score"] = <<"6","7">>

\* The canonical labels as they are written in an analysis text.
LabelText ==
    [f \in {"Candidate Name", "Strong Matches Score", "Job Stability"} |->
        CASE f = "Candidate Name" -> <<"C","a","n","d","i","d","a","t","e"," ","N","a","m","e">>
          [] f = "Strong Matches Score" -> <<"S","t","r","o","n","g"," ","M","a","t","c","h","e","s"," ","S","c","o","r","e">>
          [] f = "Job Stability" -> <<"J","o","b"," ","S","t","a","b","i","l","i","t","y">>]

\* The field a line labels, NoField when it labels none.
LineField(line) ==
    IF Contains(strip(line), <<":">>)
    THEN FieldOfKey(lower(strip(BeforeColon(strip(line)))))
    ELSE NoField

\* C7: a line made of an exact canonical label, a colon and a value yields
\* that value for the field after extraction, whatever lines surround it,
\* when no other line labels the field.
C7_ExactLabelExtracted ==
    pc = "extracted" =>
        \A f \in DOMAIN LabelText :
            LET lines == split_lines(analysis)
                labelled == {i \in DOMAIN lines : LineField(lines[i]) = f}
            IN  \A i \in labelled :
                    (/\ labelled = {i}
                     /\ BeforeColon(lines[i]) = LabelText[f]
                     /\ strip(AfterColon(lines[i])) # <<>>)
                    => result[f] = strip(AfterColon(lines[i]))

\* Pairs of spellings of one field's label.
LabelPairs ==
    { << <<"S","t","r","o","n","g"," ","M","a","t","c","h","e","s"," ","S","c","o","r","e">>, <<"s","t","r","o","n","g"," ","m","a","t","c","h","e","s">> >>,
      << <<"S","t","r","o","n","g"," ","M","a","t","c","h","e","s"," ","S","c","o","r","e">>, <<"S","T","R","O","N","G"," ","M","A","T","C","H","E","S"," ","S","C","O","R","E">> >>,
      << <<"C","a","n","d","i","d","a","t","e"," ","N","a","m","e">>, <<"n","a","m","e">> >> }

\* Both spellings are, in lower case, alternatives of the same field.
SameField(p) ==
    \E f \in Fields : IsAliasOf(lower(p[1]), f) /\ IsAliasOf(lower(p[2]), f)

\* C8: two analysis texts that differ only in the spelling of a label, both
\* spellings being alternatives of one field in any letter case, give the same
\* extracted record.
C8_LabelInsensitive ==
    pc = "extracted" =>
        \A p \in LabelPairs :
            SameField(p) => ExtractFields(replace(analysis, p[1], p[2])) = result

\* C9: a returned record holds every field of expected_fields, Phone Number,
\* Overall Weighted Score and Selection Recommendation.
C9_NoMissingKeys ==
    returned = "record" =>
        DOMAIN result = Fields \cup {"Phone Number", "Overall Weighted Score",
                                     "Selection Recommendation"}

\* C10: after the third pass and the Job Stability handling every numeric
\* field is a purely numeric string or "Not Available".
C10_NumericOrSentinel ==
    pc = "numeric" =>
        \A k \in DOMAIN numeric_fields :
            \/ result[numeric_fields[k]] = NotAvailable
            \/ IsPureNumber(result[numeric_fields[k]])

-----------------------------------------------------------------------------
(* Frame and failure properties of calculate_scores                          *)

\* C11: calculate_scores leaves the record it is passed as it was: after the
\* call at the end of parse_analysis every field of the record holds the
\* value it held before the call.
C11_RecordUnchanged ==
    [][Finish => \A f \in Fields : result'[f] = result[f]]_vars

\* The component each numeric field feeds.
NumericComponent ==
    [k \in {"Strong Matches Score", "Partial Matches Score",
            "Total Experience (Years)", "Job Stability"} |->
        CASE k = "Strong Matches Score" -> "strong_matches"
          [] k = "Partial Matches Score" -> "partial_matches"
          [] k = "Total Experience (Years)" -> "experience"
          [] k = "Job Stability" -> "stability"]

\* C12: a call always returns; a value float() rejects in one of the four
\* numeric fields counts as 0 for its own component and changes nothing else:
\* the scores, the overall score and the recommendation are those of the
\* record with "0" in that field.
C12_DegradesToZero ==
    ret.called =>
        \A k \in DOMAIN NumericComponent :
            ~FloatOf(parsed_data[k]).ok =>
                LET Same(zeroed) ==
                        /\ ret.overall_score = zeroed.overall_score
                        /\ ret.recommendation = zeroed.recommendation
                        /\ ret.scores = zeroed.scores
                IN  /\ Same(calculate_scores([parsed_data EXCEPT ![k] = <<"0">>],
                                             required_experience,
                                             stability_threshold))
                    /\ ~LowerRaises(parsed_data) =>
                           /\ Scored
                           /\ ret.scores[NumericComponent[k]] = 0

\* A call scored with float() rejecting the text of one field and None in
\* another, the remaining components being positive.
C12_Witness ==
    /\ Scored
    /\ parsed_data["Job Stability"] = <<"H","i","g","h">>
    /\ parsed_data["Strong Matches Score"] = PyNone
    /\ parsed_data["Total Experience (Years)"] = <<"f","i","v","e">>
    /\ ret.scores.stability = 0
    /\ ret.scores.relevancy > 0
    /\ ret.overall_score > 0

-----------------------------------------------------------------------------
(* The relevancy score of a returned record                                  *)

\* Analysis lines of the relevancy property: a relevancy value of the
\* language model, numeric scores and a score that is no number.
RelevancyLines ==
    { <<"R","e","l","e","v","a","n","c","y"," ","S","c","o","r","e"," ","(","0","-","1","0","0",")",":"," ","9","9">>,
      <<"S","t","r","o","n","g"," ","M","a","t","c","h","e","s"," ","S","c","o","r","e",":"," ","7","3">>,
      <<"P","a","r","t","i","a","l"," ","M","a","t","c","h","e","s"," ","S","c","o","r","e",":"," ","4","5">>,
      <<"S","t","r","o","n","g"," ","M","a","t","c","h","e","s"," ","S","c","o","r","e",":"," ","h","i","g","h">>,
      <<"S","t","r","o","n","g"," ","M","a","t","c","h","e","s"," ","S","c","o","r","e",":"," ","1","0","0">>,
      <<"P","a","r","t","i","a","l"," ","M","a","t","c","h","e","s"," ","S","c","o","r","e",":"," ","6","6",".","6","5">> }

RelevancyInit ==
    ParseInit(Texts(RelevancyLines), {PyNone, ResumeSample}, {JobSample})

SpecRelevancy == RelevancyInit /\ [][Next]_vars

\* The value of a score field, 0 when float() rejects it, in thousandths.
ScoreValue(f) == IF f.ok THEN f.milli ELSE 0

\* relevancy is a number of one decimal within 0.05 of
\* min(0.7 * strong + 0.3 * partial, 100); the unit is 1/10000.
IsRelevancyOf(relevancy, strong, partial) ==
    /\ relevancy.ok
    /\ relevancy.milli % 100 = 0
    /\ Abs(10 * relevancy.milli
           - MinOf(7 * ScoreValue(strong) + 3 * ScoreValue(partial),
                   100 * 10 * Milli)) <= 500

\* C13: in a returned record Relevancy Score (0-100) is
\* min(0.7 * Strong + 0.3 * Partial, 100) rounded to one decimal, of the
\* Strong and Partial Matches Scores of that record, a score that is no
\* number counting as 0, whatever relevancy the analysis text states.
C13_RelevancyRecomputed ==
    returned = "record" =>
        IsRelevancyOf(FloatOf(result["Relevancy Score (0-100)"]),
                      FloatOf(result["Strong Matches Score"]),
                      FloatOf(result["Partial Matches Score"]))

\* A record returned for a text that states relevancy 99 and scores 73 and
\* 45: the record holds 64.6.
C13_Witness ==
    /\ returned = "record"
    /\ Contains(analysis, <<"R","e","l","e","v","a","n","c","y"," ","S","c","o","r","e"," ","(","0","-","1","0","0",")",":"," ","9","9">>)
    /\ result["Strong Matches Score"] = <<"7","3">>
    /\ result["Partial Matches Score"] = <<"4","5">>
    /\ result["Relevancy Score (0-100)"] = <<"6","4",".","6">>

-----------------------------------------------------------------------------
(* Properties of the normalisation steps                                     *)

\* Analysis lines of the normalisation properties.
NormalizeLines ==
    { <<"C","o","l","l","e","g","e"," ","R","a","t","i","n","g",":"," ","N","o","n","-","P","r","e","m","i","u","m">>,
      <<"C","o","l","l","e","g","e"," ","R","a","t","i","n","g",":"," ","T","i","e","r"," ","2">>,
      <<"C","o","l","l","e","g","e"," ","R","a","t","i","n","g",":"," ","P","r","e","m","i","u","m">>,
      <<"C","o","m","p","e","t","i","t","o","r"," ","E","x","p","e","r","i","e","n","c","e",":"," ","N","o">>,
      <<"C","o","m","p","e","t","i","t","o","r"," ","E","x","p","e","r","i","e","n","c","e",":"," ","Y","e","s",","," ","a"," ","r","i","v","a","l">>,
      <<"C","o","m","p","e","t","i","t","o","r"," ","E","x","p","e","r","i","e","n","c","e",":"," ","J","e","d","o","x">>,
      <<"W","o","r","k"," ","H","i","s","t","o","r","y",":"," ","A","n","a","p","l","a","n">>,
      <<"L","i","n","k","e","d","I","n"," ","U","R","L",":"," ","s","e","e"," ","p","r","o","f","i","l","e">>,
      <<"L","e","a","d","e","r","s","h","i","p"," ","S","k","i","l","l","s",":"," ","y","e","s">>,
      <<"I","n","t","e","r","n","a","t","i","o","n","a","l"," ","T","e","a","m"," ","E","x","p","e","r","i","e","n","c","e",":"," ","y","e","s">> }

NormalizeInit == ParseInit(Texts(NormalizeLines), {PyNone, ResumeSample}, {PyNone})

SpecNormalize == NormalizeInit /\ [][Next]_vars

\* C14: the normalisation steps are idempotent: applied to a record they
\* produced, with the same resume text, they change no field.
C14_NormalizeIdempotent ==
    pc = "normalized" =>
        CleanFields(NormalizeFields(result, resume_text)) = result

\* C15: after normalisation Competitor Experience is the empty string or
\* "Yes - " followed by a company name.
C15_CompetitorVocabulary ==
    pc = "normalized" =>
        \/ result["Competitor Experience"] = <<>>
        \/ /\ startswith(result["Competitor Experience"], <<"Y","e","s"," ","-"," ">>)
           /\ Len(result["Competitor Experience"]) > Len(<<"Y","e","s"," ","-"," ">>)

\* The College Rating the stated rule gives for an extracted value v.
CollegeRatingAsStated(v) ==
    IF Contains(lower(v), <<"p","r","e","m","i","u","m">>) /\ ~Contains(lower(v), <<"n","o","n">>)
    THEN <<"P","r","e","m","i","u","m">>
    ELSE IF \/ Contains(lower(v), <<"n","o","n","-","p","r","e","m","i","u","m">>)
            \/ Contains(lower(v), <<"n","o","n">>)
            \/ Contains(lower(v), <<"n","o","t">>)
    THEN <<"N","o","n","-","P","r","e","m","i","u","m">>
    ELSE v

\* C19: normalisation turns an extracted College Rating that contains
\* "premium" and not "non" into "Premium", one that contains "non-premium",
\* "non" or "not" into "Non-Premium", and leaves any other value unchanged;
\* an extracted "Non-Premium" stays "Non-Premium".
C19_CollegeRatingRule ==
    [][(Normalize /\ result["College Rating"] # NotAvailable) =>
          result'["College Rating"] = CollegeRatingAsStated(result["College Rating"])]_vars

-----------------------------------------------------------------------------
(* Properties of the extraction passes                                       *)

\* C17: at the end of the input the buffer accumulated for the last
\* recognised field is stored in the record, whatever lines, blank ones
\* included, follow its last content line.
C17_FinalBufferFlushed ==
    pc = "extracted" =>
        LET Flushed(st) ==
                (st.current_field # NoField /\ st.current_value # <<>>) =>
                    result[st.current_field] = join_lines(st.current_value)
        IN  Flushed(SecondPassEnd(analysis, FirstPass(analysis, InitialResult)))

\* C18: when the pattern "Strong Matches Score:" or "Partial Matches Score:"
\* followed by a number is found in the analysis text, the returned record
\* holds that number for the field, whatever the line-by-line extraction
\* assembles for it.
C18_RegexScanPriority ==
    returned = "record" =>
        /\ SearchLabelledNumber(<<"S","t","r","o","n","g"," ","M","a","t","c","h","e","s"," ","S","c","o","r","e">>, analysis) # PyNone =>
               result["Strong Matches Score"] =
                   SearchLabelledNumber(<<"S","t","r","o","n","g"," ","M","a","t","c","h","e","s"," ","S","c","o","r","e">>, analysis)
        /\ SearchLabelledNumber(<<"P","a","r","t","i","a","l"," ","M","a","t","c","h","e","s"," ","S","c","o","r","e">>, analysis) # PyNone =>
               result["Partial Matches Score"] =
                   SearchLabelledNumber(<<"P","a","r","t","i","a","l"," ","M","a","t","c","h","e","s"," ","S","c","o","r","e">>, analysis)

-----------------------------------------------------------------------------
(* The college component                                                     *)

\* The college component of the table, for the ratings normalisation leaves:
\* Premium 100, Non-Premium 70, absent (empty or the sentinel) 20, any other
\* text 40; in units of 1/Den.
CollegeAsStated(college_rating) ==
    IF college_rating = <<"P","r","e","m","i","u","m">> THEN 100 * Den
    ELSE IF college_rating = <<"N","o","n","-","P","r","e","m","i","u","m">> THEN 70 * Den
    ELSE IF college_rating \in {<<>>, NotAvailable} THEN 20 * Den
    ELSE 40 * Den

\* C20: the college component is 100 for Premium, 70 for Non-Premium, 40 for
\* any other non-empty rating and 20 when the rating is absent; a record whose
\* College Rating is the sentinel "Not Available" gets 20.
C20_CollegeTable ==
    Scored => ret.scores.college = CollegeAsStated(parsed_data["College Rating"])

-----------------------------------------------------------------------------
(* Invocations of parse_analysis side by side                                *)

\* The number of invocations in flight.
MaxCalls == 2

\* The requests of the invocations, as <<analysis, resume_text>>: the empty
\* text, a text with a score and a competitor, and a text without scores with
\* and without a resume.
CallRequests ==
    { << <<>>, PyNone >>,
      << <<"S","t","r","o","n","g"," ","M","a","t","c","h","e","s"," ","S","c","o","r","e",":"," ","7","3","\n","C","o","m","p","e","t","i","t","o","r"," ","E","x","p","e","r","i","e","n","c","e",":"," ","J","e","d","o","x">>, ResumeSample >>,
      << <<"C","a","n","d","i","d","a","t","e"," ","N","a","m","e",":"," ","B","o","b">>, ResumeSample >>,
      << <<"C","a","n","d","i","d","a","t","e"," ","N","a","m","e",":"," ","B","o","b">>, PyNone >> }

\* parse_analysis(analysis, resume_text, job_description) before its first
\* statement.
NewCall(a, r, j) ==
    [analysis |-> a, resume_text |-> r, job_description |-> j,
     pc |-> "start", result |-> EmptyDict, returned |-> "pending"]

\* The next stage of an invocation, on its own arguments and its own local
\* result: the guard and the extraction passes, the numeric passes, the
\* fallback, the normalisation, the scoring and the return.
Stage(call) ==
    CASE call.pc = "start" ->
             IF ~Truthy(call.analysis)
             THEN [call EXCEPT !.pc = "done", !.returned = "None"]
             ELSE [call EXCEPT !.pc = "extracted",
                               !.result = ExtractFields(call.analysis)]
      [] call.pc = "extracted" ->
             [call EXCEPT !.pc = "numeric",
                          !.result = NumericPostProcess(call.result)]
      [] call.pc = "numeric" ->
             [call EXCEPT !.pc = "fallback",
                          !.result = Fallback(call.result, call.resume_text,
                                              call.job_description)]
      [] call.pc = "fallback" ->
             [call EXCEPT !.pc = "normalized",
                          !.result = CleanFields(NormalizeFields(call.result,
                                                                 call.resume_text))]
      [] call.pc = "normalized" ->
             [call EXCEPT !.pc = "done", !.returned = "record",
                          !.result = FinishRecord(call.result, call.resume_text)]

ParallelInit ==
    /\ calls \in [1..MaxCalls ->
                    {NewCall(q[1], q[2], JobSample) : q \in CallRequests}]
    /\ parsed_data = EmptyDict
    /\ ret = NoCall
    /\ analysis = PyNone
    /\ resume_text = PyNone
    /\ job_description = PyNone
    /\ pc = "idle"
    /\ result = EmptyDict
    /\ fallback_called = FALSE
    /\ returned = "pending"
    /\ AppIdle

\* Mutant of RunCall: result is one dictionary of the module that every
\* invocation past its first statement works on.
RunCallSharedResult(c) ==
    /\ calls[c].pc # "done"
    /\ LET Share(next) ==
               [d \in DOMAIN calls |->
                   IF d = c THEN next
                   ELSE IF calls[d].pc \in {"start", "done"} THEN calls[d]
                   ELSE [calls[d] EXCEPT !.result = next.result]]
       IN  calls' = Share(Stage(calls[c]))
    /\ UNCHANGED <<parsed_data, ret, analysis, resume_text, job_description,
                   pc, result, fallback_called, returned, skills_ret,
                   session_state, tab>>

\* A worker runs the next stage of invocation c.
RunCall(c) ==
    /\ calls[c].pc # "done"
    /\ calls' = [calls EXCEPT ![c] = Stage(@)]
    /\ UNCHANGED <<parsed_data, ret, analysis, resume_text, job_description,
                   pc, result, fallback_called, returned, skills_ret,
                   session_state, tab>>

ParallelNext == \E c \in DOMAIN calls : RunCall(c)

SpecParallel == ParallelInit /\ [][ParallelNext]_vars

\* The invocation call evaluated alone up to position at.
RECURSIVE AloneUntil(_, _)
AloneUntil(call, at) ==
    IF call.pc = at \/ call.pc = "done" THEN call
    ELSE AloneUntil(Stage(call), at)

\* C16: however the invocations are ordered or interleaved, each one is where
\* it would be when evaluated alone on its own arguments, and returns the
\* record it returns alone.
C16_Independent ==
    \A c \in DOMAIN calls :
        calls[c] = AloneUntil(NewCall(calls[c].analysis, calls[c].resume_text,
                                      calls[c].job_description),
                              calls[c].pc)

\* One invocation has returned its record while another, on a different
\* text, is between normalisation and scoring.
C16_Witness ==
    /\ calls # NoCalls
    /\ calls[1].pc = "normalized"
    /\ calls[2].returned = "record"
    /\ calls[1].analysis # calls[2].analysis
    /\ calls[1].result # calls[2].result

-----------------------------------------------------------------------------
(* calculate_skills_scores called on its own                                 *)

SkillResumes ==
    { <<"n","o","t","h","i","n","g">>, <<"c","l","o","u","d">>, <<"p","y","t","h","o","n">>, <<"p","y","t","h","o","n"," ","d","j","a","n","g","o">>, <<"m","y","s","q","l">>,
      <<"c","l","o","u","d"," ","a","z","u","r","e">>, <<"a","w","s">>, <<"p","y","t","h","o","n"," ","s","q","l">> }

SkillJobs ==
    { <<"a","w","s">>, <<"p","y","t","h","o","n">>, <<"h","e","l","l","o">>, <<"a","w","s"," ","s","q","l"," ","p","y","t","h","o","n">>, <<"p","y","t","h","o","n"," ","s","q","l">>,
      <<"a","w","s"," ","d","o","c","k","e","r">>, <<"s","q","l">> }

SkillsInit ==
    /\ resume_text \in SkillResumes
    /\ job_description \in SkillJobs
    /\ skills_ret = NoCall
    /\ parsed_data = EmptyDict
    /\ ret = NoCall
    /\ analysis = PyNone
    /\ pc = "idle"
    /\ result = EmptyDict
    /\ fallback_called = FALSE
    /\ returned = "pending"
    /\ calls = NoCalls
    /\ session_state = EmptyDict
    /\ tab = NoTab

\* strong, partial, ... = calculate_skills_scores(resume_text, job_description)
CallSkillsScores ==
    /\ ~skills_ret.called
    /\ skills_ret' = [called |-> TRUE,
                      scores |-> calculate_skills_scores(resume_text, job_description)]
    /\ UNCHANGED <<parsed_data, ret, analysis, resume_text, job_description, pc,
                   result, fallback_called, returned, calls, session_state, tab>>

SpecSkills == SkillsInit /\ [][CallSkillsScores]_vars

\* The job-description skills the call did not find in the resume.
MissingSkills == Len(skills_ret.scores.jd_skills) - Len(skills_ret.scores.exact_matches)

\* C21: the partial score before rounding lies between the floor
\* max(30, 0.6 * strong_score) and the ceiling min(80, strong_score + 20).
C21_BetweenFloorAndCeiling ==
    skills_ret.called =>
        /\ skills_ret.scores.min_related_score.num <= skills_ret.scores.partial_exact.num
        /\ skills_ret.scores.partial_exact.num <= skills_ret.scores.max_related_score.num

\* C22: when no job-description skill is missing from the resume (all were
\* found, or none was identified), the partial score is the ceiling.
C22_CeilingWhenNothingMissing ==
    (skills_ret.called /\ MissingSkills = 0) =>
        skills_ret.scores.partial_exact.num = skills_ret.scores.max_related_score.num

\* C29: with the job-description skills and the exact matches the same, a
\* resume with at least as many related matches scores at least as much.
C29_MonotoneInRelated ==
    skills_ret.called =>
        \A other \in SkillResumes :
            LET Compare(o) ==
                    (/\ o.jd_skills = skills_ret.scores.jd_skills
                     /\ o.exact_matches = skills_ret.scores.exact_matches
                     /\ Len(o.related_matches) <= Len(skills_ret.scores.related_matches))
                    => o.partial_exact.num <= skills_ret.scores.partial_exact.num
            IN  Compare(calculate_skills_scores(other, job_description))

-----------------------------------------------------------------------------
(* Properties of the LinkedIn and the yes/no normalisation                   *)

\* The LinkedIn URL found in a text: "" when the text is absent, is the
\* sentinel or holds none.
LinkedInFoundIn(text) ==
    IF ~Truthy(text) \/ text = NotAvailable THEN <<>>
    ELSE extract_linkedin_url(text)

\* C23: when no LinkedIn URL is matched in the extracted value, normalisation
\* leaves in the field what the resume text holds: the URL found there, and
\* the empty string when none is found or no resume text is supplied (never
\* the sentinel, never the unmatched text).
C23_LinkedInClosedOutcome ==
    [][(Normalize /\ LinkedInFoundIn(result["LinkedIn URL"]) = <<>>) =>
          result'["LinkedIn URL"] = LinkedInFoundIn(resume_text)]_vars

\* The yes/no rule as stated: a value under five characters with a yes
\* keyword is "Yes", one with a no keyword is "No", any other is kept.
YesNoAsStated(v) ==
    IF Len(v) < 5 /\ AnyIn(<< <<"y","e","s">>, <<"h","a","s">>, <<"w","o","r","k","e","d">> >>, lower(v))
    THEN <<"Y","e","s">>
    ELSE IF Len(v) < 5 /\ AnyIn(<< <<"n","o">>, <<"n","o","t">>, <<"n","o","n","e">> >>, lower(v))
    THEN <<"N","o">>
    ELSE v

\* C24: normalisation applies the yes/no rule to Leadership Skills and to
\* International Team Experience alike.
C24_YesNoCollapsed ==
    [][Normalize =>
          \A f \in {"Leadership Skills", "International Team Experience"} :
              result'[f] = YesNoAsStated(result[f])]_vars

-----------------------------------------------------------------------------
(* The stored score and the stored recommendation                            *)

\* The recommendation of the band a score shown in thousandths falls in.
BandOf(milli) ==
    IF milli >= 85 * Milli THEN StrongFit
    ELSE IF milli >= 70 * Milli THEN GoodFit
    ELSE IF milli >= 55 * Milli THEN Consider
    ELSE IF milli >= 40 * Milli THEN WeakFit
    ELSE Reject

\* C25: in a returned record the stored Overall Weighted Score lies in the
\* band of the stored Selection Recommendation: a record showing at least 85
\* is Strong Fit, [70, 85) Good Fit, [55, 70) Consider, [40, 55) Weak Fit and
\* below 40 Reject.
C25_StoredScoreInBand ==
    returned = "record" =>
        result["Selection Recommendation"]
            = BandOf(FloatOf(result["Overall Weighted Score"]).milli)

-----------------------------------------------------------------------------
(* parse_analysis as one call                                                *)

\* parse_analysis(analysis, resume_text, job_description): what is returned,
\* None for an empty analysis and otherwise the record after all the steps.
parse_analysis(a, r, j) ==
    IF ~Truthy(a) THEN [returned |-> "None", result |-> EmptyDict]
    ELSE [returned |-> "record",
          result |-> FinishRecord(
                         CleanFields(
                             NormalizeFields(
                                 Fallback(NumericPostProcess(ExtractFields(a)), r, j),
                                 r)), r)]

-----------------------------------------------------------------------------
(* main_analysis_tab and dashboard_tab: batches in one session               *)

MaxFiles == 2      \* files in one upload
MaxBatches == 2    \* clicks on "Analyze All Resumes" in one session

\* An analysis whose every component scores 100.
TopReply ==
    <<"S","t","r","o","n","g"," ","M","a","t","c","h","e","s"," ","S","c","o","r","e",":"," ","1","0","0","\n","P","a","r","t","i","a","l"," ","M","a","t","c","h","e","s"," ","S","c","o","r","e",":"," ","1","0","0","\n","T","o","t","a","l"," ","E","x","p","e","r","i","e","n","c","e"," ","(","Y","e","a","r","s",")",":"," ","5","\n","J","o","b"," ","S","t","a","b","i","l","i","t","y",":"," ","1","0","\n","C","o","l","l","e","g","e"," ","R","a","t","i","n","g",":"," ","P","r","e","m","i","u","m","\n","L","e","a","d","e","r","s","h","i","p"," ","S","k","i","l","l","s",":"," ","L","e","d"," ","a"," ","t","e","a","m","\n","I","n","t","e","r","n","a","t","i","o","n","a","l"," ","T","e","a","m"," ","E","x","p","e","r","i","e","n","c","e",":"," ","L","e","d"," ","i","n","t","e","r","n","a","t","i","o","n","a","l"," ","t","e","a","m","s","\n","C","o","m","p","e","t","i","t","o","r"," ","E","x","p","e","r","i","e","n","c","e",":"," ","Y","e","s"," ","-"," ","A","n","a","p","l","a","n">>

\* The uploads: the file name, the text extract_text_from_pdf finds (None for
\* a scan or a broken file), the reply analyze_resume gets (None when the call
\* fails), and the seconds measured around the three steps and the whole file.
UploadedFiles ==
    { [name |-> "a.pdf", text |-> ResumeSample, reply |-> TopReply,
       extraction_time |-> 1, api_call_time |-> 5, parsing_time |-> 1,
       resume_time |-> 8],
      [name |-> "b.pdf", text |-> ResumeSample, reply |-> <<"S","t","r","o","n","g"," ","M","a","t","c","h","e","s"," ","S","c","o","r","e",":"," ","7","3">>,
       extraction_time |-> 1, api_call_time |-> 3, parsing_time |-> 1,
       resume_time |-> 6],
      [name |-> "c.pdf", text |-> PyNone, reply |-> PyNone,
       extraction_time |-> 2, api_call_time |-> 0, parsing_time |-> 0,
       resume_time |-> 2],
      [name |-> "d.pdf", text |-> <<"J","a","v","a">>, reply |-> PyNone,
       extraction_time |-> 1, api_call_time |-> 4, parsing_time |-> 0,
       resume_time |-> 5] }

\* parse_analysis(analysis, resume_text, job_description) of every upload
\* with text and a reply, under the job description of the session.
Parsed ==
    [file \in {f \in UploadedFiles : Truthy(f.text) /\ Truthy(f.reply)} |->
        parse_analysis(file.reply, file.text, JobSample)]

\* The uploads the file uploader can hold.
Uploads == UNION {[1..n -> UploadedFiles] : n \in 1..MaxFiles}

\* st.session_state after the first run of the page, before any click.
NewSession ==
    [results_data |-> <<>>,
     total_processing_time |-> 0,
     processed_count |-> 0,
     total_api_time |-> 0,
     total_parsing_time |-> 0,
     total_extraction_time |-> 0]

\* The page after a run without a click: no batch, nothing drawn.
\*   phase           where the script is: "ready" between runs, "running" in
\*                   the loop over the files, "summary" after the loop
\*   uploaded_files  the files of the batch
\*   i               the files the loop has been through
\*   progress        the value of the progress bar, a fraction
\*   subheaders      the "Resume: <name>" subheaders written, in order
\*   average         the "Average Resume Time" of the timing summary as
\*                   <<seconds, resumes>>, empty when no summary is shown
\*   score_category  the 'Score Category' column of the dashboard, by the
\*                   index label of the row (the position in results_data)
\*   batches         the clicks so far
ReadyTab ==
    [phase |-> "ready", uploaded_files |-> <<>>, i |-> 0,
     progress |-> [num |-> 0, den |-> 1], subheaders |-> <<>>,
     average |-> <<>>, score_category |-> <<>>, batches |-> 0]

SessionInit ==
    /\ session_state = NewSession
    /\ tab = ReadyTab
    /\ skills_ret = NoCall
    /\ parsed_data = EmptyDict
    /\ ret = NoCall
    /\ analysis = PyNone
    /\ resume_text = PyNone
    /\ job_description = JobSample
    /\ pc = "idle"
    /\ result = EmptyDict
    /\ fallback_called = FALSE
    /\ returned = "pending"
    /\ calls = NoCalls

\* Mutant of ClickAnalyze: the results of the previous batch are kept.
ClickAnalyzeKeepResults(files) ==
    /\ tab.phase = "ready"
    /\ tab.batches < MaxBatches
    /\ Truthy(job_description)
    /\ tab' = [tab EXCEPT !.phase = "running", !.uploaded_files = files, !.i = 0,
                          !.progress = [num |-> 0, den |-> 1],
                          !.subheaders = <<>>, !.average = <<>>,
                          !.batches = @ + 1]
    /\ UNCHANGED session_state
    /\ UNCHANGED <<parsed_data, ret, analysis, resume_text, job_description, pc,
                   result, fallback_called, returned, calls, skills_ret>>

\* A click on "Analyze All Resumes" with files uploaded and a job description
\* given: the progress bar at 0 and the previous results cleared.
ClickAnalyze(files) ==
    /\ tab.phase = "ready"
    /\ tab.batches < MaxBatches
    /\ Truthy(job_description)
    /\ tab' = [tab EXCEPT !.phase = "running", !.uploaded_files = files, !.i = 0,
                          !.progress = [num |-> 0, den |-> 1],
                          !.subheaders = <<>>, !.average = <<>>,
                          !.batches = @ + 1]
    /\ session_state' = [session_state EXCEPT !.results_data = <<>>]
    /\ UNCHANGED <<parsed_data, ret, analysis, resume_text, job_description, pc,
                   result, fallback_called, returned, calls, skills_ret>>

\* The session after the body of the loop for one file: the extraction, and
\* if it gave text the analysis call, and if that gave a reply the parsing,
\* and if that gave a record the record stored and counted.
AfterFile(s, file) ==
    LET extracted == [s EXCEPT !.total_extraction_time = @ + file.extraction_time]
        called == [extracted EXCEPT !.total_api_time = @ + file.api_call_time]
        parsed == [called EXCEPT !.total_parsing_time = @ + file.parsing_time]
        Stored(p) ==
            IF p.returned = "None" THEN parsed
            ELSE [parsed EXCEPT
                    !.results_data = Append(@, Put(p.result, "resume_text", file.text)),
                    !.total_processing_time = @ + file.resume_time,
                    !.processed_count = @ + 1]
    IN  IF ~Truthy(file.text) THEN extracted
        ELSE IF ~Truthy(file.reply) THEN called
        ELSE Stored(Parsed[file])

\* Mutant of ProcessFile: a file without text ends the loop.
ProcessFileStopOnFailure ==
    /\ tab.phase = "running"
    /\ tab.i < Len(tab.uploaded_files)
    /\ LET file == tab.uploaded_files[tab.i + 1]
           next == IF Truthy(file.text) THEN tab.i + 1 ELSE Len(tab.uploaded_files)
       IN  /\ session_state' = AfterFile(session_state, file)
           /\ tab' = [tab EXCEPT !.i = next,
                                 !.subheaders = Append(@, file.name),
                                 !.progress = [num |-> tab.i + 1,
                                               den |-> Len(tab.uploaded_files)]]
    /\ UNCHANGED <<parsed_data, ret, analysis, resume_text, job_description, pc,
                   result, fallback_called, returned, calls, skills_ret>>

\* One turn of "for i, uploaded_file in enumerate(uploaded_files)".
ProcessFile ==
    /\ tab.phase = "running"
    /\ tab.i < Len(tab.uploaded_files)
    /\ LET file == tab.uploaded_files[tab.i + 1]
           next == tab.i + 1
       IN  /\ session_state' = AfterFile(session_state, file)
           /\ tab' = [tab EXCEPT !.i = next,
                                 !.subheaders = Append(@, file.name),
                                 !.progress = [num |-> tab.i + 1,
                                               den |-> Len(tab.uploaded_files)]]
    /\ UNCHANGED <<parsed_data, ret, analysis, resume_text, job_description, pc,
                   result, fallback_called, returned, calls, skills_ret>>

\* After the loop: the progress bar at 1.0 and, if a resume was ever counted,
\* the timing summary with the average resume time.
FinishBatch ==
    /\ tab.phase = "running"
    /\ tab.i = Len(tab.uploaded_files)
    /\ tab' = [tab EXCEPT
                 !.phase = "summary",
                 !.progress = [num |-> 1, den |-> 1],
                 !.average = IF session_state.processed_count > 0
                             THEN <<session_state.total_processing_time,
                                    session_state.processed_count>>
                             ELSE <<>>]
    /\ UNCHANGED session_state
    /\ UNCHANGED <<parsed_data, ret, analysis, resume_text, job_description, pc,
                   result, fallback_called, returned, calls, skills_ret>>

\* score_bins and score_labels
score_bins == <<0, 40, 55, 70, 85, 100>>
score_labels == <<"Reject", "Weak Fit", "Consider", "Good Fit", "Strong Fit">>

\* The missing value of a pandas column.
NaN == "NaN"

\* pd.to_numeric(value, errors='coerce'): the float in thousandths, ok FALSE
\* standing for NaN.
to_numeric(v) == FloatOf(v)

\* pd.cut(score, bins=score_bins, labels=score_labels, right=False) for one
\* score: the label of the bin [low, high) that holds it, NaN when the score
\* is NaN or no bin holds it.
cut(score) ==
    LET bins == {k \in 1..Len(score_labels) :
                    /\ score.ok
                    /\ score_bins[k] * Milli <= score.milli
                    /\ score.milli < score_bins[k + 1] * Milli}
    IN  IF bins = {} THEN NaN ELSE score_labels[CHOOSE k \in bins : TRUE]

\* "Extract phone numbers if not already present"
WithPhoneNumber(candidate) ==
    IF "Phone Number" \notin DOMAIN candidate \/ ~Truthy(candidate["Phone Number"])
    THEN IF "resume_text" \in DOMAIN candidate
         THEN Put(candidate, "Phone Number", extract_phone_number(candidate["resume_text"]))
         ELSE Put(candidate, "Phone Number", NotAvailable)
    ELSE candidate

\* dashboard_tab, run after main_analysis_tab in the same run of the script:
\* nothing without results; otherwise the phone numbers filled in and the
\* score category of every candidate.
ShowDashboard ==
    /\ tab.phase = "summary"
    /\ LET results_data == session_state.results_data
           filled == [n \in DOMAIN results_data |-> WithPhoneNumber(results_data[n])]
       IN  IF results_data = <<>>
           THEN /\ tab' = [tab EXCEPT !.phase = "ready", !.score_category = <<>>]
                /\ UNCHANGED session_state
           ELSE /\ session_state' = [session_state EXCEPT !.results_data = filled]
                /\ tab' = [tab EXCEPT
                             !.phase = "ready",
                             !.score_category =
                                 [n \in DOMAIN filled |->
                                     cut(to_numeric(filled[n]["Overall Weighted Score"]))]]
    /\ UNCHANGED <<parsed_data, ret, analysis, resume_text, job_description, pc,
                   result, fallback_called, returned, calls, skills_ret>>

SessionNext ==
    \/ \E files \in Uploads : ClickAnalyze(files)
    \/ ProcessFile
    \/ FinishBatch
    \/ ShowDashboard

SpecSession == SessionInit /\ [][SessionNext]_vars

-----------------------------------------------------------------------------
(* Properties of the batches and the dashboard                               *)

\* The score category named by a recommendation.
CategoryOf(recommendation) ==
    CASE recommendation = StrongFit -> "Strong Fit"
      [] recommendation = GoodFit -> "Good Fit"
      [] recommendation = Consider -> "Consider"
      [] recommendation = WeakFit -> "Weak Fit"
      [] recommendation = Reject -> "Reject"
      [] OTHER -> NaN

\* The dashboard has been drawn for the results held.
DashboardShown ==
    /\ tab.phase = "ready"
    /\ tab.batches > 0
    /\ session_state.results_data # <<>>

\* C26: on the dashboard every candidate whose Overall Weighted Score is a
\* number in [0, 100] is in exactly one score category, the one named by the
\* Selection Recommendation; none is left without a category.
C26_EveryScoreCategorised ==
    DashboardShown =>
        \A n \in DOMAIN session_state.results_data :
            LET candidate == session_state.results_data[n]
                score == FloatOf(candidate["Overall Weighted Score"])
            IN  (score.ok /\ score.milli >= 0 /\ score.milli <= 100 * Milli) =>
                    /\ n \in DOMAIN tab.score_category
                    /\ tab.score_category[n] # NaN
                    /\ tab.score_category[n]
                           = CategoryOf(candidate["Selection Recommendation"])

\* The records of the files of an upload for which extraction, analysis and
\* parsing all succeed, in upload order.
RECURSIVE RecordsOf(_)
RecordsOf(files) ==
    IF files = <<>> THEN <<>>
    ELSE LET file == Head(files)
             ok == /\ Truthy(file.text)
                   /\ Truthy(file.reply)
                   /\ Parsed[file].returned = "record"
         IN  (IF ok THEN << Put(Parsed[file].result, "resume_text", file.text) >>
              ELSE <<>>) \o RecordsOf(Tail(files))

\* A batch has run to its end.
BatchOver == tab.phase \in {"summary", "ready"} /\ tab.batches > 0

\* C27: after any sequence of batches results_data holds one record for each
\* file of the most recent batch whose extraction, analysis and parsing
\* succeeded, in upload order, and no record of an earlier batch.
C27_ResultsOfLastBatch ==
    BatchOver =>
        LET expected == RecordsOf(tab.uploaded_files)
        IN  /\ Len(session_state.results_data) = Len(expected)
            /\ \A n \in DOMAIN expected :
                   session_state.results_data[n] \in {expected[n],
                                                      WithPhoneNumber(expected[n])}

\* A second batch of b.pdf then a.pdf is over, after a first batch in which
\* resumes were analysed: results_data holds the two records in upload order.
C27_Witness ==
    /\ BatchOver
    /\ tab.batches = 2
    /\ Len(tab.uploaded_files) = 2
    /\ tab.uploaded_files[1].name = "b.pdf"
    /\ tab.uploaded_files[2].name = "a.pdf"
    /\ session_state.processed_count > 2
    /\ Len(session_state.results_data) = 2
    /\ session_state.results_data[1]["Strong Matches Score"] = <<"7","3">>
    /\ session_state.results_data[2]["Overall Weighted Score"] = <<"1","0","0",".","0">>

RECURSIVE SumOfTimes(_)
SumOfTimes(records) ==
    IF records = <<>> THEN 0
    ELSE LET Time(r) == CHOOSE t \in {f.resume_time : f \in DOMAIN Parsed} :
                            \E f \in DOMAIN Parsed :
                                /\ f.resume_time = t
                                /\ r \in {Put(Parsed[f].result, "resume_text", f.text),
                                          WithPhoneNumber(Put(Parsed[f].result,
                                                              "resume_text", f.text))}
         IN  Time(Head(records)) + SumOfTimes(Tail(records))

\* C28: after any sequence of batches the accumulators describe the results
\* held: processed_count is the number of records in results_data and the
\* average resume time shown is the average over those records.
C28_TimersDescribeResults ==
    BatchOver =>
        /\ session_state.processed_count = Len(session_state.results_data)
        /\ session_state.results_data # <<>> =>
               tab.average = << SumOfTimes(session_state.results_data),
                                Len(session_state.results_data) >>

\* The names of the files of an upload.
Names(files) == [n \in DOMAIN files |-> files[n].name]

\* C30: while a batch runs, every step either takes the next file in upload
\* order, whatever step fails for it, or, after the last file, ends the batch
\* with every file taken once and the progress bar at 100%; a running batch
\* always has such a step to take.
C30_BatchRunsToEnd ==
    /\ [](tab.phase = "running" => ENABLED (ProcessFile \/ FinishBatch))
    /\ [][tab.phase = "running" =>
            LET files == tab.uploaded_files
            IN  \/ /\ tab.i < Len(files)
                   /\ tab'.phase = "running"
                   /\ tab'.uploaded_files = files
                   /\ tab'.i = tab.i + 1
                   /\ tab'.subheaders = Append(tab.subheaders, files[tab.i + 1].name)
                \/ /\ tab.i = Len(files)
                   /\ tab'.phase = "summary"
                   /\ tab'.subheaders = Names(files)
                   /\ tab'.progress = [num |-> 1, den |-> 1]]_vars

\* A batch is over in which the first file gave no text and the second was
\* analysed.
C30_Witness ==
    /\ BatchOver
    /\ Len(tab.uploaded_files) = 2
    /\ ~Truthy(tab.uploaded_files[1].text)
    /\ tab.subheaders = <<"c.pdf", "a.pdf">>
    /\ Len(session_state.results_data) = 1
    /\ tab.progress = [num |-> 1, den |-> 1]

=============================================================================
